---------------------------- MODULE Spec2Model ----------------------------
(***************************************************************************)
(* Model of the comment-stripping scanners of nocomms: removeGoComments,   *)
(* removeJSComments, removePythonComments, removeRustComments,             *)
(* removeYAMLComments and removeTerraformComments.                         *)
(*                                                                         *)
(* A text is a sequence of runes; a rune is a one-character string.  MB    *)
(* stands for a rune whose UTF-8 encoding takes two bytes (e.g. U+00E9),   *)
(* NUL for U+0000.  Indices follow Go: 0-based, half-open slices.          *)
(***************************************************************************)
EXTENDS Integers, Sequences, FiniteSets, TLC

MB == "<e9>"
NUL == "<00>"
NL == "\n"
\* The backtick, U+0060 (the lexer of TLA+ has no backtick in strings).
BT == "bt"

\* utf8.RuneLen of a rune of the model.
ByteLen(r) == IF r = MB THEN 2 ELSE 1

\* s[a:b] of Go for 0 <= a <= b <= len(s).
Slice(s, a, b) == SubSeq(s, a + 1, b)

\* s[a:] of Go.
From(s, a) == SubSeq(s, a + 1, Len(s))

\* A continuation that scans the whole line again.
RemainderKept(line, k) == line

\* "line = line[idx+2:]" (after "*/") and "line = line[idx+1:]" (after the
\* closing backtick): what is left of a line once the context carried over
\* from the previous line has ended.
Remainder(line, k) == From(line, k)

\* Whether pat occurs in s at 0-based position k.
MatchAt(s, k, pat) ==
    /\ k + Len(pat) <= Len(s)
    /\ \A n \in 1..Len(pat) : s[k + n] = pat[n]

\* strings.Index on texts of one-byte runes, and the rune position in general:
\* the 0-based position of the first occurrence of pat in s, or -1.
Index(s, pat) ==
    LET hits == {k \in 0..(Len(s) - Len(pat)) : MatchAt(s, k, pat)}
    IN  IF hits = {} THEN -1 ELSE CHOOSE k \in hits : \A m \in hits : k <= m

RECURSIVE ByteCount(_, _)
\* Number of bytes of the first n runes of s.
ByteCount(s, n) == IF n = 0 THEN 0 ELSE ByteCount(s, n - 1) + ByteLen(s[n])

\* strings.Index(string(runes), pat): the BYTE offset of the first occurrence.
ByteIndex(s, pat) ==
    LET k == Index(s, pat) IN IF k = -1 THEN -1 ELSE ByteCount(s, k)

\* A scanner that leaves the blanks at the end of a cleaned line.
TrimRightNothing(s) == s

RECURSIVE TrimRight(_)
\* strings.TrimRight(s, " \t")
TrimRight(s) ==
    IF s # <<>> /\ s[Len(s)] \in {" ", "\t"}
    THEN TrimRight(SubSeq(s, 1, Len(s) - 1))
    ELSE s

RECURSIVE Split(_)
\* strings.Split(content, "\n")
Split(content) ==
    LET k == Index(content, <<NL>>)
    IN  IF k = -1 THEN <<content>>
        ELSE <<Slice(content, 0, k)>> \o Split(From(content, k + 1))

\* Number of "\n" in a text.
Newlines(s) == Cardinality({k \in 1..Len(s) : s[k] = NL})

\* The "\n" written after a line unless it is the last one.
Sep(last) == IF last THEN <<>> ELSE <<NL>>


VARIABLES
    lang,      \* which scanner runs: the extension switch of processFile
    lines,     \* strings.Split(content, "\n") of the text being scanned
    i,         \* 0-based index of the next line
    st,        \* the flags a scanner carries from one line to the next
    result,    \* the strings.Builder the scanner writes
    status,    \* "scanning" | "returned" | "panicked", and in processFile
               \* after the scanner: "collapsing" | "written"
    pass,      \* 1: the document; 2: the scanner's own output fed back
    input,     \* the text given to the current pass
    first,     \* the text the scanner returned in pass 1 (<<>> before that)
    calls,     \* scanner calls in progress side by side: per call its locals
    config,    \* run: the Config (Files as extensions, BatchSize, flags)
    cache,     \* run: cache.ProcessedFiles, per file a time or NoEntry
    mtime,     \* the file system: each file's modification time
    pc,        \* run: "cache-only" | "filter" | "batches" | "wait" | "returned"
    cursor,    \* run: 1-based index of the file the loop over Files is at
    processedFiles, \* run: the files whose comments were removed, in order
    skippedFiles,   \* run: the counter of skipped files
    cachedCount,    \* run: the counter of the cache-only mode
    batchStart,     \* processBatches: the loop variable i
    claude,    \* processBatch: per file "none" | "spawned" | "running" |
               \* "sending" | "done" | "failed" (its goroutine: created,
               \* in runClaude, at the send to errChan, ended)
    printed,   \* what run reported for each file ("" before it got there)
    written,   \* the files processFile has rewritten
    ret        \* run: "" while it runs, then "nil" | "error" | "panic"

scanVars == <<lang, lines, i, st, result, status, pass, input, first>>

runVars == <<config, cache, mtime, pc, cursor, processedFiles, skippedFiles,
             cachedCount, batchStart, claude, printed, written, ret>>

vars == <<scanVars, calls, runVars>>

\* run is not running: the scanner is called on a text directly.
RunIdle ==
    /\ config = [Files |-> <<>>, BatchSize |-> 1, ForceProcess |-> FALSE,
                 CacheOnly |-> FALSE]
    /\ cache = <<>> /\ mtime = <<>>
    /\ pc = "returned" /\ cursor = 1
    /\ processedFiles = <<>> /\ skippedFiles = 0 /\ cachedCount = 0
    /\ batchStart = 0
    /\ claude = <<>> /\ printed = <<>> /\ written = {}
    /\ ret = "nil"

\* No other call runs beside the one in lang .. first.
Alone == calls = <<>> /\ RunIdle

\* The cross-line flags as declared at the top of each scanner.
Normal ==
    [inBlockComment |-> FALSE, inRawStringMultiline |-> FALSE,
     inTemplateLiteralMultiline |-> FALSE, inMultilineString |-> FALSE,
     multilineDelim |-> <<>>, blockCommentDepth |-> 0]

\* Flags that say on every line that a double-quoted string is open.
LineStartInString ==
    [cleaned |-> <<>>, inString |-> TRUE, inRawString |-> FALSE,
     inRune |-> FALSE, inChar |-> FALSE, inTemplateLiteral |-> FALSE,
     stringDelim |-> "\"",
     escaped |-> FALSE, enterBlock |-> FALSE, enterMulti |-> FALSE,
     multilineDelim |-> <<>>, depth |-> 0, panic |-> FALSE]

\* The per-line flags of the character loops.
LineStart ==
    [cleaned |-> <<>>, inString |-> FALSE, inRawString |-> FALSE,
     inRune |-> FALSE, inChar |-> FALSE, inTemplateLiteral |-> FALSE,
     stringDelim |-> "",
     escaped |-> FALSE, enterBlock |-> FALSE, enterMulti |-> FALSE,
     multilineDelim |-> <<>>, depth |-> 0, panic |-> FALSE]

(***************************************************************************)
(* removeGoComments                                                        *)
(***************************************************************************)
\* A scanner in which a backslash never starts an escape sequence.
GoEscapesNothing(ch, c) == FALSE

\* "ch == '\\' && (inString || inRune)": the backslash starts an escape
\* sequence.
GoEscapes(ch, c) == ch = "\\" /\ (c.inString \/ c.inRune)

\* The continuation branch with the line trimmed like a line of code.
RawStringLineTrimmed(line, last) == TrimRight(line) \o Sep(last)

\* What is written for a line that lies inside a multi-line raw string and
\* has no backtick: the line as it is, and "\n" unless it is the last line.
RawStringLine(line, last) == line \o Sep(last)

RECURSIVE GoChars(_, _, _)
\* The loop "for j < len(runes)" of removeGoComments.
GoChars(runes, j, c) ==
    IF j >= Len(runes) THEN c
    ELSE
    LET ch == runes[j + 1]
        emit == [c EXCEPT !.cleaned = Append(@, ch)]
    IN  IF c.escaped
          THEN GoChars(runes, j + 1, [emit EXCEPT !.escaped = FALSE])
        ELSE IF GoEscapes(ch, c)
          THEN GoChars(runes, j + 1, [emit EXCEPT !.escaped = TRUE])
        ELSE IF ch = BT /\ ~c.inString /\ ~c.inRune
          THEN IF ~c.inRawString
                 THEN IF Index(From(runes, j + 1), <<BT>>) = -1
                        THEN [c EXCEPT !.inRawString = TRUE, !.enterMulti = TRUE,
                                       !.cleaned = @ \o From(runes, j)]
                        ELSE GoChars(runes, j + 1, [emit EXCEPT !.inRawString = TRUE])
                 ELSE GoChars(runes, j + 1, [emit EXCEPT !.inRawString = FALSE])
        ELSE IF ch = "'" /\ ~c.inString /\ ~c.inRawString
          THEN GoChars(runes, j + 1, [emit EXCEPT !.inRune = ~@])
        ELSE IF ch = "\"" /\ ~c.inRawString /\ ~c.inRune
          THEN GoChars(runes, j + 1, [emit EXCEPT !.inString = ~@])
        ELSE IF c.inString \/ c.inRawString \/ c.inRune
          THEN GoChars(runes, j + 1, emit)
        ELSE IF MatchAt(runes, j, <<"/", "*">>)
          THEN LET endIdx == ByteIndex(From(runes, j + 2), <<"*", "/">>)
               IN  IF endIdx # -1
                     THEN GoChars(runes, j + endIdx + 4, c)
                     ELSE [c EXCEPT !.enterBlock = TRUE]
        ELSE IF MatchAt(runes, j, <<"/", "/">>)
          THEN c
        ELSE GoChars(runes, j + 1, emit)

\* One iteration of "for i, line := range lines" of removeGoComments:
\* what it writes to result, and the flags it leaves.
GoLine(line, s, last) ==
    LET rawIdx == Index(line, <<BT>>)
    IN  IF s.inRawStringMultiline /\ rawIdx = -1
          THEN [out |-> RawStringLine(line, last), st |-> s, panic |-> FALSE]
        ELSE
        LET pre == IF s.inRawStringMultiline THEN Slice(line, 0, rawIdx + 1) ELSE <<>>
            line1 == IF s.inRawStringMultiline THEN Remainder(line, rawIdx + 1) ELSE line
            s1 == [s EXCEPT !.inRawStringMultiline = FALSE]
            idx == Index(line1, <<"*", "/">>)
        IN  IF s1.inBlockComment /\ idx = -1
              THEN [out |-> pre \o <<NL>>, st |-> s1, panic |-> FALSE]
            ELSE
            LET line2 == IF s1.inBlockComment THEN Remainder(line1, idx + 2) ELSE line1
                c == GoChars(line2, 0, LineStart)
            IN  [out |-> pre \o TrimRight(c.cleaned) \o Sep(last),
                 st |-> [s1 EXCEPT !.inBlockComment = c.enterBlock,
                                   !.inRawStringMultiline = c.enterMulti],
                 panic |-> FALSE]


(***************************************************************************)
(* removeJSComments                                                        *)
(***************************************************************************)
RECURSIVE EscapeCount(_, _)
\* The number of consecutive backslashes that end right before 0-based
\* position k: the loops "for m := k - 1; m >= 0 && runes[m] == '\\'; m--".
EscapeCount(s, k) ==
    IF k >= 1 /\ s[k] = "\\" THEN 1 + EscapeCount(s, k - 1) ELSE 0

\* The 0-based positions >= from of the backticks of s that an even number of
\* backslashes precedes.
ClosingBackticks(s, from) ==
    {k \in from..(Len(s) - 1) : s[k + 1] = BT /\ EscapeCount(s, k) % 2 = 0}

RECURSIVE JSChars(_, _, _)
\* The loop "for j < len(runes)" of removeJSComments.
JSChars(runes, j, c) ==
    IF j >= Len(runes) THEN c
    ELSE
    LET ch == runes[j + 1]
        emit == [c EXCEPT !.cleaned = Append(@, ch)]
    IN  IF c.escaped
          THEN JSChars(runes, j + 1, [emit EXCEPT !.escaped = FALSE])
        ELSE IF ch = "\\" /\ (c.inString \/ c.inTemplateLiteral)
          THEN JSChars(runes, j + 1, [emit EXCEPT !.escaped = TRUE])
        ELSE IF ~c.inTemplateLiteral /\ ch \in {"\"", "'"}
          THEN IF ~c.inString
                 THEN JSChars(runes, j + 1,
                              [emit EXCEPT !.inString = TRUE, !.stringDelim = ch])
               ELSE IF ch = c.stringDelim
                 THEN JSChars(runes, j + 1,
                              [emit EXCEPT !.inString = FALSE, !.stringDelim = ""])
               ELSE JSChars(runes, j + 1, emit)
        ELSE IF ch = BT /\ ~c.inString
          THEN IF ~c.inTemplateLiteral
                 THEN IF ClosingBackticks(runes, j + 1) = {}
                        THEN [c EXCEPT !.inTemplateLiteral = TRUE, !.enterMulti = TRUE,
                                       !.cleaned = @ \o From(runes, j)]
                        ELSE JSChars(runes, j + 1,
                                     [emit EXCEPT !.inTemplateLiteral = TRUE])
                 ELSE JSChars(runes, j + 1, [emit EXCEPT !.inTemplateLiteral = FALSE])
        ELSE IF c.inString \/ c.inTemplateLiteral
          THEN JSChars(runes, j + 1, emit)
        ELSE IF MatchAt(runes, j, <<"/", "*">>)
          THEN LET endIdx == ByteIndex(From(runes, j + 2), <<"*", "/">>)
               IN  IF endIdx # -1
                     THEN JSChars(runes, j + endIdx + 4, c)
                     ELSE [c EXCEPT !.enterBlock = TRUE]
        ELSE IF MatchAt(runes, j, <<"/", "/">>)
          THEN c
        ELSE JSChars(runes, j + 1, emit)

\* One iteration of "for i, line := range lines" of removeJSComments.
JSLine(line, s, last) ==
    IF s.inTemplateLiteralMultiline
      THEN [out |-> line \o Sep(last),
            st |-> [s EXCEPT !.inTemplateLiteralMultiline =
                                 (ClosingBackticks(line, 0) = {})],
            panic |-> FALSE]
    ELSE
    LET idx == Index(line, <<"*", "/">>)
    IN  IF s.inBlockComment /\ idx = -1
          THEN [out |-> <<NL>>, st |-> s, panic |-> FALSE]
        ELSE
        LET line1 == IF s.inBlockComment THEN Remainder(line, idx + 2) ELSE line
            c == JSChars(line1, 0, LineStart)
        IN  [out |-> (IF c.enterMulti THEN <<>> ELSE TrimRight(c.cleaned))
                       \o Sep(last),
             st |-> [s EXCEPT !.inBlockComment = c.enterBlock,
                              !.inTemplateLiteralMultiline = c.enterMulti],
             panic |-> FALSE]

(***************************************************************************)
(* removePythonComments                                                    *)
(***************************************************************************)
\* runes[a:b] where b may exceed len(runes).  Go allows b up to cap(runes);
\* []rune(line) may have spare capacity (a stack buffer, or the allocator's
\* size class), which is zeroed: then the slice ends in NUL runes.  With
\* cap = len the slice expression panics.
Overrun(runes, a, b, roomy) ==
    IF b <= Len(runes) THEN [panic |-> FALSE, runes |-> Slice(runes, a, b)]
    ELSE IF roomy
      THEN [panic |-> FALSE,
            runes |-> Slice(runes \o [n \in 1..(b - Len(runes)) |-> NUL], a, b)]
      ELSE [panic |-> TRUE, runes |-> <<>>]

RECURSIVE PyChars(_, _, _, _)
\* The loop "for j < len(runes)" of removePythonComments.
PyChars(runes, j, c, roomy) ==
    IF j >= Len(runes) THEN c
    ELSE
    LET ch == runes[j + 1]
        emit == [c EXCEPT !.cleaned = Append(@, ch)]
    IN  IF c.escaped
          THEN PyChars(runes, j + 1, [emit EXCEPT !.escaped = FALSE], roomy)
        ELSE IF ch = "\\" /\ c.inString
          THEN PyChars(runes, j + 1, [emit EXCEPT !.escaped = TRUE], roomy)
        ELSE IF /\ ~c.inString
                /\ j + 2 < Len(runes)
                /\ \/ MatchAt(runes, j, <<"'", "'", "'">>)
                   \/ MatchAt(runes, j, <<"\"", "\"", "\"">>)
          THEN LET delim == Slice(runes, j, j + 3)
                   endIdx == ByteIndex(From(runes, j + 3), delim)
                   sl == Overrun(runes, j, j + 3 + endIdx + 3, roomy)
               IN  IF endIdx # -1
                     THEN IF sl.panic
                            THEN [c EXCEPT !.panic = TRUE]
                            ELSE PyChars(runes, j + 3 + endIdx + 3,
                                         [c EXCEPT !.cleaned = @ \o sl.runes], roomy)
                     ELSE [c EXCEPT !.enterMulti = TRUE, !.multilineDelim = delim,
                                    !.cleaned = @ \o From(runes, j)]
        ELSE IF ch \in {"\"", "'"} /\ ~c.inString
          THEN PyChars(runes, j + 1,
                       [emit EXCEPT !.inString = TRUE, !.stringDelim = ch], roomy)
        ELSE IF c.inString /\ ch = c.stringDelim
          THEN PyChars(runes, j + 1,
                       [emit EXCEPT !.inString = FALSE, !.stringDelim = ""], roomy)
        ELSE IF c.inString
          THEN PyChars(runes, j + 1, emit, roomy)
        ELSE IF ch = "#"
          THEN c
        ELSE PyChars(runes, j + 1, emit, roomy)

\* A scanner that remembers the delimiter of a string that has closed.
ClosedDelimKept(delim) == delim

\* "multilineDelim = """ on the line that closes the multi-line string.
ClosedDelim(delim) == <<>>

\* One iteration of "for i, line := range lines" of removePythonComments.
PyLine(line, s, last, roomy) ==
    IF s.inMultilineString
      THEN [out |-> line \o Sep(last),
            st |-> IF Index(line, s.multilineDelim) # -1
                     THEN [s EXCEPT !.inMultilineString = FALSE,
                                    !.multilineDelim = ClosedDelim(@)]
                     ELSE s,
            panic |-> FALSE]
    ELSE
    LET c == PyChars(line, 0, LineStart, roomy)
    IN  [out |-> (IF c.enterMulti THEN <<>> ELSE TrimRight(c.cleaned))
                   \o Sep(last),
         st |-> [s EXCEPT !.inMultilineString = c.enterMulti,
                          !.multilineDelim = c.multilineDelim],
         panic |-> c.panic]

(***************************************************************************)
(* removeRustComments                                                      *)
(***************************************************************************)
\* A scanner whose block comments do not nest: an inner "/*" is not counted.
DeeperIgnored(depth) == depth

\* "blockCommentDepth++" at a "/*" met inside a block comment.
Deeper(depth) == depth + 1

RECURSIVE RustInBlock(_, _, _)
\* The loop "for idx := 0; idx < len(line);" that continues a block comment
\* begun on an earlier line.
RustInBlock(line, idx, depth) ==
    IF idx >= Len(line)
      THEN [closed |-> FALSE, depth |-> depth, rest |-> <<>>]
    ELSE IF MatchAt(line, idx, <<"/", "*">>)
      THEN RustInBlock(line, idx + 2, Deeper(depth))
    ELSE IF MatchAt(line, idx, <<"*", "/">>)
      THEN IF depth - 1 = 0
             THEN [closed |-> TRUE, depth |-> 0, rest |-> Remainder(line, idx + 2)]
             ELSE RustInBlock(line, idx + 2, depth - 1)
    ELSE RustInBlock(line, idx + 1, depth)

RECURSIVE RustSameLineBlock(_, _, _)
\* The loop "for k < len(runes)" that looks for the end of a block comment on
\* the line where it begins.
RustSameLineBlock(runes, k, depth) ==
    IF k >= Len(runes)
      THEN [closed |-> FALSE, depth |-> depth, j |-> k]
    ELSE IF MatchAt(runes, k, <<"/", "*">>)
      THEN RustSameLineBlock(runes, k + 2, Deeper(depth))
    ELSE IF MatchAt(runes, k, <<"*", "/">>)
      THEN IF depth - 1 = 0
             THEN [closed |-> TRUE, depth |-> 0, j |-> k + 2]
             ELSE RustSameLineBlock(runes, k + 2, depth - 1)
    ELSE RustSameLineBlock(runes, k + 1, depth)

RECURSIVE HashRun(_, _)
\* The number of '#' runes of s from 0-based position k on.
HashRun(s, k) == IF k < Len(s) /\ s[k + 1] = "#" THEN 1 + HashRun(s, k + 1) ELSE 0

\* "\"" + strings.Repeat("#", hashCount)
RawDelimiter(hashCount) == <<"\"">> \o [n \in 1..hashCount |-> "#"]

RECURSIVE RustChars(_, _, _, _)
\* The loop "for j < len(runes)" of removeRustComments.
RustChars(runes, j, c, roomy) ==
    IF j >= Len(runes) THEN c
    ELSE
    LET ch == runes[j + 1]
        emit == [c EXCEPT !.cleaned = Append(@, ch)]
        hashCount == HashRun(runes, j + 1)
        k == j + 1 + hashCount
        delimiter == RawDelimiter(hashCount)
        endIdx == ByteIndex(From(runes, k + 1), delimiter)
        sl == Overrun(runes, k + 1, k + 1 + endIdx + Len(delimiter), roomy)
        blk == RustSameLineBlock(runes, j + 2, 1)
    IN  IF c.escaped
          THEN RustChars(runes, j + 1, [emit EXCEPT !.escaped = FALSE], roomy)
        ELSE IF ch = "\\" /\ (c.inString \/ c.inChar)
          THEN RustChars(runes, j + 1, [emit EXCEPT !.escaped = TRUE], roomy)
        ELSE IF /\ ~c.inString /\ ~c.inChar /\ ch = "r" /\ j + 1 < Len(runes)
                /\ k < Len(runes) /\ runes[k + 1] = "\""
          THEN IF endIdx # -1
                 THEN IF sl.panic
                        THEN [c EXCEPT !.panic = TRUE]
                        ELSE RustChars(runes, k + 1 + endIdx + Len(delimiter),
                                 [c EXCEPT !.cleaned =
                                      @ \o Slice(runes, j, k + 1) \o sl.runes],
                                 roomy)
                 ELSE [c EXCEPT !.inRawString = TRUE,
                                !.cleaned = @ \o From(runes, j)]
        ELSE IF ch = "'" /\ ~c.inString /\ ~c.inRawString
          THEN RustChars(runes, j + 1, [emit EXCEPT !.inChar = ~@], roomy)
        ELSE IF ch = "\"" /\ ~c.inRawString /\ ~c.inChar
          THEN RustChars(runes, j + 1, [emit EXCEPT !.inString = ~@], roomy)
        ELSE IF c.inString \/ c.inRawString \/ c.inChar
          THEN RustChars(runes, j + 1, emit, roomy)
        ELSE IF MatchAt(runes, j, <<"/", "*">>)
          THEN IF blk.closed
                 THEN RustChars(runes, blk.j, c, roomy)
                 ELSE [c EXCEPT !.enterBlock = TRUE, !.depth = blk.depth]
        ELSE IF MatchAt(runes, j, <<"/", "/">>)
          THEN c
        ELSE RustChars(runes, j + 1, emit, roomy)

\* One iteration of "for i, line := range lines" of removeRustComments.
RustLine(line, s, last, roomy) ==
    LET b == RustInBlock(line, 0, s.blockCommentDepth)
    IN  IF s.inBlockComment /\ ~b.closed
          THEN [out |-> <<NL>>, st |-> [s EXCEPT !.blockCommentDepth = b.depth],
                panic |-> FALSE]
        ELSE
        LET line1 == IF s.inBlockComment THEN b.rest ELSE line
            depth1 == IF s.inBlockComment THEN 0 ELSE s.blockCommentDepth
            c == RustChars(line1, 0, LineStart, roomy)
        IN  [out |-> TrimRight(c.cleaned) \o Sep(last),
             st |-> [s EXCEPT !.inBlockComment = c.enterBlock,
                              !.blockCommentDepth =
                                  IF c.enterBlock THEN c.depth ELSE depth1],
             panic |-> c.panic]

(***************************************************************************)
(* removeYAMLComments                                                      *)
(***************************************************************************)
\* A scanner in which a backslash escapes in single-quoted strings too.
YAMLEscapesInAnyString(ch, c) == ch = "\\" /\ c.inString

\* "ch == '\\' && inString && stringDelim == '"'": the backslash escapes
\* only in a double-quoted string.
YAMLEscapes(ch, c) == ch = "\\" /\ c.inString /\ c.stringDelim = "\""

RECURSIVE YAMLChars(_, _, _)
\* The loop "for j := 0; j < len(runes); j++" of removeYAMLComments.
YAMLChars(runes, j, c) ==
    IF j >= Len(runes) THEN c
    ELSE
    LET ch == runes[j + 1]
        emit == [c EXCEPT !.cleaned = Append(@, ch)]
    IN  IF c.escaped
          THEN YAMLChars(runes, j + 1, [emit EXCEPT !.escaped = FALSE])
        ELSE IF YAMLEscapes(ch, c)
          THEN YAMLChars(runes, j + 1, [emit EXCEPT !.escaped = TRUE])
        ELSE IF /\ c.inString /\ c.stringDelim = "'" /\ ch = "'"
                /\ j + 1 < Len(runes) /\ runes[j + 2] = "'"
          THEN YAMLChars(runes, j + 2,
                         [c EXCEPT !.cleaned = @ \o <<ch, runes[j + 2]>>])
        ELSE IF ch \in {"\"", "'"} /\ ~c.inString
          THEN YAMLChars(runes, j + 1,
                         [emit EXCEPT !.inString = TRUE, !.stringDelim = ch])
        ELSE IF c.inString /\ ch = c.stringDelim
          THEN YAMLChars(runes, j + 1,
                         [emit EXCEPT !.inString = FALSE, !.stringDelim = ""])
        ELSE IF c.inString
          THEN YAMLChars(runes, j + 1, emit)
        ELSE IF ch = "#"
          THEN c
        ELSE YAMLChars(runes, j + 1, emit)

\* One iteration of "for i, line := range lines" of removeYAMLComments.
YAMLLine(line, s, last) ==
    [out |-> TrimRight(YAMLChars(line, 0, LineStart).cleaned) \o Sep(last),
     st |-> s, panic |-> FALSE]

(***************************************************************************)
(* removeTerraformComments                                                 *)
(***************************************************************************)
\* The runes of the model for which isAlphanumeric is true.
AlnumRunes == {"a", "b", "r", "x", "E", "F", "0", "1"}

isAlphanumeric(r) == r \in AlnumRunes

RECURSIVE TrimSpace(_)
\* strings.TrimSpace
TrimSpace(s) ==
    IF s # <<>> /\ s[1] \in {" ", "\t"} THEN TrimSpace(Tail(s))
    ELSE IF s # <<>> /\ s[Len(s)] \in {" ", "\t"}
      THEN TrimSpace(SubSeq(s, 1, Len(s) - 1))
    ELSE s

RECURSIVE TFString(_, _, _)
\* The inner loop of the double-quoted string branch, entered after the
\* opening quote is written: the position and the text when it ends.
TFString(runes, i0, res) ==
    IF i0 >= Len(runes) THEN [i |-> i0, res |-> res]
    ELSE IF runes[i0 + 1] = "\\" /\ i0 + 1 < Len(runes)
      THEN TFString(runes, i0 + 2, res \o <<runes[i0 + 1], runes[i0 + 2]>>)
    ELSE IF runes[i0 + 1] = "\""
      THEN [i |-> i0 + 1, res |-> Append(res, runes[i0 + 1])]
    ELSE TFString(runes, i0 + 1, Append(res, runes[i0 + 1]))

RECURSIVE DelimiterEnd(_, _)
\* The position after the identifier runes that begin at i0.
DelimiterEnd(runes, i0) ==
    IF i0 < Len(runes) /\ (isAlphanumeric(runes[i0 + 1]) \/ runes[i0 + 1] = "_")
      THEN DelimiterEnd(runes, i0 + 1)
      ELSE i0

\* LineEnd with the off-by-one of a skip loop that also consumes the "\n".
LineEndSkipsNewline(runes, i0) ==
    LET k == Index(From(runes, i0), <<NL>>)
    IN  IF k = -1 THEN Len(runes) ELSE i0 + k + 1

\* The position of the next "\n" at or after i0, or len(runes).
LineEnd(runes, i0) ==
    LET k == Index(From(runes, i0), <<NL>>)
    IN  IF k = -1 THEN Len(runes) ELSE i0 + k

RECURSIVE TFHeredoc(_, _, _, _)
\* The loop that copies a heredoc until the delimiter stands on a line of its
\* own; it starts with the rest of the line of the trigger.
TFHeredoc(runes, i0, res, delimiterStr) ==
    IF i0 >= Len(runes) THEN [i |-> i0, res |-> res]
    ELSE
    LET e == LineEnd(runes, i0)
        line == Slice(runes, i0, e)
        nl == IF e < Len(runes) THEN <<runes[e + 1]>> ELSE <<>>
        i1 == IF e < Len(runes) THEN e + 1 ELSE e
    IN  IF TrimSpace(line) = delimiterStr
          THEN [i |-> i1, res |-> res \o line \o nl]
          ELSE TFHeredoc(runes, i1, res \o line \o nl, delimiterStr)

RECURSIVE TFBlockEnd(_, _)
\* The loop that skips a block comment: the position after its "*/", or
\* len(runes).
TFBlockEnd(runes, i0) ==
    IF i0 >= Len(runes) THEN i0
    ELSE IF MatchAt(runes, i0, <<"*", "/">>) THEN i0 + 2
    ELSE TFBlockEnd(runes, i0 + 1)

RECURSIVE TFScan(_, _, _)
\* The loop "for i < len(runes)" of removeTerraformComments.
TFScan(runes, i0, res) ==
    IF i0 >= Len(runes) THEN [panic |-> FALSE, out |-> res]
    ELSE IF runes[i0 + 1] = "\""
      THEN LET q == TFString(runes, i0 + 1, Append(res, runes[i0 + 1]))
           IN  TFScan(runes, q.i, q.res)
    ELSE
    LET heredoc == i0 + 2 < Len(runes) /\ MatchAt(runes, i0, <<"<", "<">>)
        afterDash == IF runes[i0 + 3] = "-" THEN i0 + 3 ELSE i0 + 2
        dEnd == DelimiterEnd(runes, afterDash)
        delimiterStr == Slice(runes, afterDash, dEnd)
        \* without a delimiter the branch falls through with i moved on
        i1 == IF heredoc THEN dEnd ELSE i0
    IN  IF heredoc /\ delimiterStr # <<>>
          THEN LET h == TFHeredoc(runes, dEnd, res \o Slice(runes, i0, dEnd),
                                  delimiterStr)
               IN  TFScan(runes, h.i, h.res)
        ELSE IF i1 >= Len(runes)
          THEN [panic |-> TRUE, out |-> <<>>]
        ELSE IF runes[i1 + 1] = "#" \/ MatchAt(runes, i1, <<"/", "/">>)
          THEN TFScan(runes, LineEnd(runes, i1), res)
        ELSE IF MatchAt(runes, i1, <<"/", "*">>)
          THEN TFScan(runes, TFBlockEnd(runes, i1 + 2), res)
        ELSE TFScan(runes, i1 + 1, Append(res, runes[i1 + 1]))

\* A scanner that trims the blanks at the end of what it returns.
removeTerraformCommentsTrimmed(code) ==
    [TFScan(code, 0, <<>>) EXCEPT !.out = TrimRight(@)]

removeTerraformComments(code) == TFScan(code, 0, <<>>)

(***************************************************************************)
(* The documents the scanners are run on.                                  *)
(***************************************************************************)
MaxTok == 4

RECURSIVE Flatten(_)
\* The text spelled by a sequence of tokens.
Flatten(ts) == IF ts = <<>> THEN <<>> ELSE Head(ts) \o Flatten(Tail(ts))

SeqsUpTo(S, n) == UNION {[1..k -> S] : k \in 0..n}

\* The alphabets: each token is a run of runes that matters to the scanner of
\* the language, so that short token sequences reach its interesting cases.
CTokens ==
    {<<"a">>, <<" ">>, <<NL>>, <<"\"">>, <<"'">>, <<"\\">>, <<BT>>,
     <<"/", "/">>, <<"/", "*">>, <<"*", "/">>, <<MB>>}

PyTokens ==
    {<<"a">>, <<" ">>, <<NL>>, <<"\"">>, <<"'">>, <<"\\">>, <<"#">>,
     <<"\"", "\"", "\"">>, <<"'", "'", "'">>, <<MB>>}

RustTokens ==
    {<<"a">>, <<" ">>, <<NL>>, <<"\"">>, <<"'">>, <<"\\">>, <<"r">>, <<"#">>,
     <<"/", "/">>, <<"/", "*">>, <<"*", "/">>, <<MB>>}

YAMLTokens ==
    {<<"a">>, <<" ">>, <<NL>>, <<"\"">>, <<"'">>, <<"\\">>, <<"#">>, <<MB>>}

TFTokens ==
    {<<"E">>, <<" ">>, <<NL>>, <<"\"">>, <<"\\">>, <<"#">>, <<"<", "<">>,
     <<"-">>, <<"/", "/">>, <<"/", "*">>, <<"*", "/">>}

Tokens(l) ==
    CASE l \in {"go", "js"} -> CTokens
      [] l = "py" -> PyTokens
      [] l = "rust" -> RustTokens
      [] l = "yaml" -> YAMLTokens
      [] l = "tf" -> TFTokens

Docs(l) == {Flatten(ts) : ts \in SeqsUpTo(Tokens(l), MaxTok)}

\* The extensions processFile dispatches on, by scanner.
Langs == {"go", "js", "py", "rust", "yaml", "tf"}

(***************************************************************************)
(* The scanners as state machines: one step per line.                      *)
(***************************************************************************)
Init ==
    /\ lang \in Langs
    /\ input \in Docs(lang)
    /\ lines = Split(input)
    /\ i = 0
    /\ st = Normal
    /\ result = <<>>
    /\ status = "scanning"
    /\ pass = 1
    /\ first = <<>>
    /\ Alone

\* The effect of one loop iteration r on the state.
Advance(r) ==
    /\ result' = IF r.panic THEN result ELSE result \o r.out
    /\ st' = r.st
    /\ i' = i + 1
    /\ status' = IF r.panic THEN "panicked"
                 ELSE IF i + 1 = Len(lines) THEN "returned" ELSE "scanning"
    /\ UNCHANGED <<lang, lines, pass, input, first, calls, runVars>>

GoStep ==
    /\ lang = "go" /\ status = "scanning"
    /\ Advance(GoLine(lines[i + 1], st, i = Len(lines) - 1))

JSStep ==
    /\ lang = "js" /\ status = "scanning"
    /\ Advance(JSLine(lines[i + 1], st, i = Len(lines) - 1))

\* roomy: whether []rune(line) has spare capacity (see Overrun).
PyStep ==
    /\ lang = "py" /\ status = "scanning"
    /\ \E roomy \in BOOLEAN :
           Advance(PyLine(lines[i + 1], st, i = Len(lines) - 1, roomy))

RustStep ==
    /\ lang = "rust" /\ status = "scanning"
    /\ \E roomy \in BOOLEAN :
           Advance(RustLine(lines[i + 1], st, i = Len(lines) - 1, roomy))

YAMLStep ==
    /\ lang = "yaml" /\ status = "scanning"
    /\ Advance(YAMLLine(lines[i + 1], st, i = Len(lines) - 1))

\* removeTerraformComments scans the whole text, not line by line.
TFStep ==
    /\ lang = "tf" /\ status = "scanning"
    /\ LET r == removeTerraformComments(input)
       IN  /\ result' = r.out
           /\ status' = IF r.panic THEN "panicked" ELSE "returned"
    /\ i' = Len(lines)
    /\ UNCHANGED <<lang, lines, st, pass, input, first, calls, runVars>>

\* The caller applies the scanner to the text it returned.
Again ==
    /\ status = "returned" /\ pass = 1
    /\ pass' = 2
    /\ first' = result
    /\ input' = result
    /\ lines' = Split(result)
    /\ i' = 0
    /\ st' = Normal
    /\ result' = <<>>
    /\ status' = "scanning"
    /\ UNCHANGED <<lang, calls, runVars>>

Next == GoStep \/ JSStep \/ PyStep \/ RustStep \/ YAMLStep \/ TFStep \/ Again

Spec == Init /\ [][Next]_vars

(***************************************************************************)
(* One-line documents made of quotes, backslashes and comment tokens: the  *)
(* inputs of the string-handling branches of the character loops.          *)
(***************************************************************************)
MaxStrTok == 6

StrTokens(l) ==
    CASE l \in {"go", "js", "rust"} ->
             {<<"\"">>, <<"'">>, <<"\\">>, <<"/", "/">>, <<" ">>}
      [] l \in {"py", "yaml"} ->
             {<<"\"">>, <<"'">>, <<"\\">>, <<"#">>, <<" ">>}
      [] l = "tf" ->
             {<<"\"">>, <<"\\">>, <<"#">>, <<"/", "/">>, <<" ">>}

StrDocs(l) == {Flatten(ts) : ts \in SeqsUpTo(StrTokens(l), MaxStrTok)}

InitStr ==
    /\ lang \in Langs
    /\ input \in StrDocs(lang)
    /\ lines = Split(input)
    /\ i = 0
    /\ st = Normal
    /\ result = <<>>
    /\ status = "scanning"
    /\ pass = 1
    /\ first = <<>>
    /\ Alone

SpecStr == InitStr /\ [][Next]_vars

(***************************************************************************)
(* Documents made of block-comment tokens, line breaks and code, for the   *)
(* three scanners with block comments that keep the line structure.        *)
(***************************************************************************)
MaxCmtTok == 6

CmtTokens == {<<"/", "*">>, <<"*", "/">>, <<NL>>, <<"a">>, <<MB>>}

CmtDocs == {Flatten(ts) : ts \in SeqsUpTo(CmtTokens, MaxCmtTok)}

InitCmt ==
    /\ lang \in {"go", "js", "rust"}
    /\ input \in CmtDocs
    /\ lines = Split(input)
    /\ i = 0
    /\ st = Normal
    /\ result = <<>>
    /\ status = "scanning"
    /\ pass = 1
    /\ first = <<>>
    /\ Alone

NextCmt == GoStep \/ JSStep \/ RustStep \/ Again

SpecCmt == InitCmt /\ [][NextCmt]_vars

(***************************************************************************)
(* Terraform documents with a heredoc trigger: code, the trigger, and then *)
(* line breaks, "#", spaces and the delimiter word in any order.           *)
(***************************************************************************)
MaxHdTok == 6

HdTokens == {<<NL>>, <<"#">>, <<" ">>, <<"E">>}

HdTriggers == {<<"<", "<", "E">>, <<"<", "<", "-", "E">>}

HdDocs ==
    {pre \o trig \o Flatten(ts) :
        pre \in {<<>>, <<"a", " ">>}, trig \in HdTriggers,
        ts \in SeqsUpTo(HdTokens, MaxHdTok)}

InitHd ==
    /\ lang = "tf"
    /\ input \in HdDocs
    /\ lines = Split(input)
    /\ i = 0
    /\ st = Normal
    /\ result = <<>>
    /\ status = "scanning"
    /\ pass = 1
    /\ first = <<>>
    /\ Alone

NextHd == TFStep \/ Again

SpecHd == InitHd /\ [][NextHd]_vars

(***************************************************************************)
(* Rust documents that begin a raw string: r, up to MaxHashes '#', a quote,*)
(* and then quotes, '#', "//", line breaks and a two-byte rune.            *)
(***************************************************************************)
MaxRawTok == 5

MaxHashes == 2

RawTokens == {<<"\"">>, <<"#">>, <<"/", "/">>, <<NL>>, <<MB>>}

RawDocs ==
    {pre \o <<"r">> \o [k \in 1..n |-> "#"] \o <<"\"">> \o Flatten(ts) :
        pre \in {<<>>, <<"a", " ">>}, n \in 0..MaxHashes,
        ts \in SeqsUpTo(RawTokens, MaxRawTok)}

InitRaw ==
    /\ lang = "rust"
    /\ input \in RawDocs
    /\ lines = Split(input)
    /\ i = 0
    /\ st = Normal
    /\ result = <<>>
    /\ status = "scanning"
    /\ pass = 1
    /\ first = <<>>
    /\ Alone

NextRaw == RustStep \/ Again

SpecRaw == InitRaw /\ [][NextRaw]_vars

(***************************************************************************)
(* collapseExcessiveNewlines, and processFile running it on the text the   *)
(* scanner returned.                                                       *)
(***************************************************************************)
\* The runes of the model that the class \s of the pattern matches.
Whitespace == {" ", "\t", NL}

RECURSIVE WsRunEnd(_, _)
\* The 0-based position after the whitespace runes that begin at position k.
WsRunEnd(s, k) ==
    IF k < Len(s) /\ s[k + 1] \in Whitespace THEN WsRunEnd(s, k + 1) ELSE k

\* A lazy \s+? in the pattern: the match ends at the nearest "\n" it can.
NearestNewline(s, p, w) ==
    LET ks == {k \in (p + 3)..w : s[k] = NL}
    IN  IF ks = {} THEN -1 ELSE CHOOSE k \in ks : \A m \in ks : k <= m

\* The greedy \s+ of the pattern: of the runes p+3..w (1-based) that are
\* "\n", the last one ends the match; -1 when there is none.
FarthestNewline(s, p, w) ==
    LET ks == {k \in (p + 3)..w : s[k] = NL}
    IN  IF ks = {} THEN -1 ELSE CHOOSE k \in ks : \A m \in ks : k >= m

\* A pattern without its closing "\n": the match takes the whole run of
\* whitespace after a line break.
MatchEndWholeRun(s, p) ==
    IF p < Len(s) /\ s[p + 1] = NL /\ WsRunEnd(s, p + 1) > p + 1
      THEN WsRunEnd(s, p + 1)
      ELSE -1

\* The match of the pattern \n\s+\n that begins at 0-based position p: the
\* position after it, or -1 when none begins there.
MatchEnd(s, p) ==
    IF p < Len(s) /\ s[p + 1] = NL
      THEN FarthestNewline(s, p, WsRunEnd(s, p + 1))
      ELSE -1

\* A loop that never finds a match.
reMatchNothing(content) == FALSE

\* re.Match([]byte(content))
reMatch(content) == \E p \in 0..(Len(content) - 1) : MatchEnd(content, p) # -1

\* A replacement that keeps one empty line.
ReplacementTwoNewlines == <<NL, NL>>

\* A replacement as long as the shortest match.
ReplacementKeepsBlank == <<NL, " ", NL>>

\* The replacement text "\n".
Replacement == <<NL>>

RECURSIVE ReplaceFrom(_, _, _)
\* re.ReplaceAllString(content, "\n") from position p on: the leftmost match
\* is replaced and the search goes on after it.
ReplaceFrom(s, p, out) ==
    IF p >= Len(s) THEN out
    ELSE IF MatchEnd(s, p) # -1
      THEN ReplaceFrom(s, MatchEnd(s, p), out \o Replacement)
    ELSE ReplaceFrom(s, p + 1, Append(out, s[p + 1]))

ReplaceAllString(content) == ReplaceFrom(content, 0, <<>>)

RECURSIVE collapseExcessiveNewlines(_)
collapseExcessiveNewlines(content) ==
    IF reMatch(content)
      THEN collapseExcessiveNewlines(ReplaceAllString(content))
      ELSE content

\* One evaluation of the loop condition of collapseExcessiveNewlines, with the
\* loop body when it holds; processFile writes the file when it does not.
CollapseStep ==
    /\ status \in {"returned", "collapsing"}
    /\ IF reMatch(result)
         THEN result' = ReplaceAllString(result) /\ status' = "collapsing"
         ELSE result' = result /\ status' = "written"
    /\ first' = IF status = "returned" THEN result ELSE first
    /\ UNCHANGED <<lang, lines, i, st, pass, input, calls, runVars>>

MaxNormTok == 7

\* Terraform texts without quotes and comment runes (the scanner returns them
\* as they are, blank lines with spaces included); JS and Python texts of
\* code, line comments and spaces.
NormTokens(l) ==
    CASE l = "tf" -> {<<"a">>, <<" ">>, <<NL>>}
      [] l = "js" -> {<<"a">>, <<" ">>, <<NL>>, <<"/", "/">>}
      [] l = "py" -> {<<"a">>, <<" ">>, <<NL>>, <<"#">>}

NormDocs(l) == {Flatten(ts) : ts \in SeqsUpTo(NormTokens(l), MaxNormTok)}

InitNorm ==
    /\ lang \in {"tf", "js", "py"}
    /\ input \in NormDocs(lang)
    /\ lines = Split(input)
    /\ i = 0
    /\ st = Normal
    /\ result = <<>>
    /\ status = "scanning"
    /\ pass = 1
    /\ first = <<>>
    /\ Alone

NextNorm == JSStep \/ PyStep \/ TFStep \/ CollapseStep

SpecNorm == InitNorm /\ [][NextNorm]_vars

(***************************************************************************)
(* run: the cache, the loop over the files, the batches                    *)
(***************************************************************************)
\* The extensions of the files handed to run.
Exts ==
    {".js", ".ts", ".jsx", ".tsx", ".go", ".py", ".rs", ".tf", ".tfvars",
     ".yaml", ".yml", ".txt", ""}

\* A dispatch that sends every file to a scanner.
ScannerForAny(ext) == IF ext = ".go" THEN "go" ELSE "js"

\* The switch of processFile: the scanner of an extension.
ScannerFor(ext) ==
    CASE ext \in {".js", ".ts", ".jsx", ".tsx"} -> "js"
      [] ext = ".go" -> "go"
      [] ext = ".py" -> "py"
      [] ext = ".rs" -> "rust"
      [] ext \in {".tf", ".tfvars"} -> "tf"
      [] ext \in {".yaml", ".yml"} -> "yaml"
      [] OTHER -> "unsupported"

\* What a call of processFile can come to, by the answers of the file system
\* and by the content: the read fails, the extension has no scanner, the
\* scanner fails on the content (Python, Rust, Terraform and the C-style
\* scanners index past a slice on some texts), the write fails, or the file
\* is rewritten.
processFile(ext) ==
    {"read error"}
        \cup IF ScannerFor(ext) = "unsupported"
               THEN {"unsupported"}
               ELSE {"nil", "write error"}
                        \cup IF ScannerFor(ext) = "yaml" THEN {} ELSE {"panic"}

\* The modification times of the model; a file written now gets the latest.
Times == {1, 2}

Latest == CHOOSE t \in Times : \A u \in Times : t >= u

\* "lastProcessed, exists := c.ProcessedFiles[relPath]" with exists = false.
NoEntry == 0

\* A cache that asks for a file again whose time equals the cached time.
AfterOrEqual(t, u) == t >= u

\* info.ModTime().After(lastProcessed)
After(t, u) == t > u

\* FileCache.shouldProcess: statOk is whether os.Stat found the file, t the
\* modification time it reported.
shouldProcess(c, f, statOk, t) ==
    IF ~statOk THEN [should |-> FALSE, err |-> TRUE]
    ELSE IF c[f] = NoEntry THEN [should |-> TRUE, err |-> FALSE]
    ELSE [should |-> After(t, c[f]), err |-> FALSE]

\* A markProcessed that forgets the file instead of recording its time.
markProcessedForgets(c, f, statOk, t) == [c EXCEPT ![f] = NoEntry]

\* FileCache.markProcessed.
markProcessed(c, f, statOk, t) == IF statOk THEN [c EXCEPT ![f] = t] ELSE c

NumFiles == Len(config.Files)

\* A cache-only loop that reports a git-ignored file and marks it all the
\* same.
CacheOnlyStepMarksIgnored ==
    /\ pc = "cache-only" /\ cursor <= NumFiles
    /\ \E ignored, statOk \in BOOLEAN :
           IF ~statOk
             THEN /\ printed' = [printed EXCEPT ![cursor] =
                                     IF ignored THEN "gitignored" ELSE "warning"]
                  /\ UNCHANGED <<cache, cachedCount>>
           ELSE /\ cache' = markProcessed(cache, cursor, TRUE, mtime[cursor])
                /\ printed' = [printed EXCEPT ![cursor] =
                                   IF ignored THEN "gitignored" ELSE "cached"]
                /\ cachedCount' = cachedCount + 1
    /\ cursor' = cursor + 1
    /\ UNCHANGED <<scanVars, calls, config, mtime, pc, processedFiles,
                   skippedFiles, batchStart, claude, written, ret>>

\* One iteration of the loop of the cache-only mode.
CacheOnlyStep ==
    /\ pc = "cache-only" /\ cursor <= NumFiles
    /\ \E ignored, statOk \in BOOLEAN :
           IF ignored
             THEN /\ printed' = [printed EXCEPT ![cursor] = "gitignored"]
                  /\ UNCHANGED <<cache, cachedCount>>
           ELSE IF ~statOk
             THEN /\ printed' = [printed EXCEPT ![cursor] = "warning"]
                  /\ UNCHANGED <<cache, cachedCount>>
           ELSE /\ cache' = markProcessed(cache, cursor, TRUE, mtime[cursor])
                /\ printed' = [printed EXCEPT ![cursor] = "cached"]
                /\ cachedCount' = cachedCount + 1
    /\ cursor' = cursor + 1
    /\ UNCHANGED <<scanVars, calls, config, mtime, pc, processedFiles,
                   skippedFiles, batchStart, claude, written, ret>>

\* The end of the cache-only mode.
CacheOnlyEnd ==
    /\ pc = "cache-only" /\ cursor > NumFiles
    /\ pc' = "returned"
    /\ ret' = IF cachedCount = 0 THEN "error" ELSE "nil"
    /\ UNCHANGED <<scanVars, calls, config, cache, mtime, cursor,
                   processedFiles, skippedFiles, cachedCount, batchStart,
                   claude, printed, written>>

\* One iteration of the loop that filters the files and removes comments.
FilterStep ==
    /\ pc = "filter" /\ cursor <= NumFiles
    /\ \E ignored, statOk \in BOOLEAN :
       \E o \in processFile(config.Files[cursor]) :
           LET r   == shouldProcess(cache, cursor, statOk, mtime[cursor])
               go  == config.ForceProcess \/ r.err \/ r.should
               out == IF ignored THEN "gitignored"
                      ELSE IF ~go THEN "unchanged"
                      ELSE o
           IN  /\ printed' = [printed EXCEPT ![cursor] =
                                  IF out = "nil" THEN "removed"
                                  ELSE IF out \in {"read error", "write error"}
                                    THEN "warning"
                                  ELSE out]
               /\ skippedFiles' =
                      IF out \in {"gitignored", "unchanged", "unsupported"}
                        THEN skippedFiles + 1 ELSE skippedFiles
               /\ processedFiles' = IF out = "nil"
                                      THEN Append(processedFiles, cursor)
                                      ELSE processedFiles
               /\ written' = IF out = "nil" THEN written \cup {cursor} ELSE written
               /\ mtime' = IF out = "nil" THEN [mtime EXCEPT ![cursor] = Latest]
                           ELSE mtime
               /\ pc' = IF out = "panic" THEN "returned" ELSE pc
               /\ ret' = IF out = "panic" THEN "panic" ELSE ret
    /\ cursor' = cursor + 1
    /\ UNCHANGED <<scanVars, calls, config, cache, cachedCount, batchStart,
                   claude>>

\* After the loop: nothing to hand to Claude, or on to processBatches.
FilterEnd ==
    /\ pc = "filter" /\ cursor > NumFiles
    /\ IF processedFiles = <<>>
         THEN /\ pc' = "returned"
              /\ ret' = IF skippedFiles > 0 THEN "nil" ELSE "error"
         ELSE /\ pc' = "batches"
              /\ ret' = ret
    /\ UNCHANGED <<scanVars, calls, config, cache, mtime, cursor,
                   processedFiles, skippedFiles, cachedCount, batchStart,
                   claude, printed, written>>

\* A batch that takes every remaining file.
BatchToTheEnd ==
    {k \in 1..Len(processedFiles) : batchStart < k}

\* files[i:end] of processBatches, as the set of positions in processedFiles.
Batch ==
    {k \in 1..Len(processedFiles) :
         batchStart < k /\ k <= batchStart + config.BatchSize}

\* processBatches: the loop condition, and processBatch starting one
\* goroutine per file of the batch.
StartBatch ==
    /\ pc = "batches"
    /\ IF batchStart < Len(processedFiles)
         THEN /\ claude' = [f \in DOMAIN claude |->
                                IF \E k \in Batch : processedFiles[k] = f
                                  THEN "spawned" ELSE claude[f]]
              /\ pc' = "wait"
              /\ ret' = ret
         ELSE /\ pc' = "returned"
              /\ ret' = "nil"
              /\ claude' = claude
    /\ UNCHANGED <<scanVars, calls, config, cache, mtime, cursor,
                   processedFiles, skippedFiles, cachedCount, batchStart,
                   printed, written>>

\* A goroutine of the batch gets to run: runClaude starts the command.
ClaudeStart ==
    /\ pc = "wait"
    /\ \E f \in DOMAIN claude :
           /\ claude[f] = "spawned"
           /\ claude' = [claude EXCEPT ![f] = "running"]
    /\ UNCHANGED <<scanVars, calls, config, cache, mtime, pc, cursor,
                   processedFiles, skippedFiles, cachedCount, batchStart,
                   printed, written, ret>>

\* runClaude returns: the command has rewritten the file and the goroutine
\* is done, or it failed and the goroutine is about to send the error.
ClaudeFinish ==
    /\ pc = "wait"
    /\ \E f \in DOMAIN claude : \E ok \in BOOLEAN :
           /\ claude[f] = "running"
           /\ claude' = [claude EXCEPT ![f] = IF ok THEN "done" ELSE "sending"]
           /\ mtime' = IF ok THEN [mtime EXCEPT ![f] = Latest] ELSE mtime
    /\ UNCHANGED <<scanVars, calls, config, cache, pc, cursor,
                   processedFiles, skippedFiles, cachedCount, batchStart,
                   printed, written, ret>>

\* An error channel without a buffer.
ErrChanUnbuffered == Cardinality({})

\* "errChan := make(chan error, len(files))": the slots of the channel.
ErrChanCap == Cardinality(Batch)

\* The errors in the channel: nothing receives before wg.Wait() returns, so
\* they are those of the goroutines of the batch that have sent theirs.
ErrChanLen ==
    Cardinality({k \in Batch : claude[processedFiles[k]] = "failed"})

\* "errChan <- fmt.Errorf(...)": the send goes through when the channel has
\* a free slot, and the goroutine ends (wg.Done).
ErrSend ==
    /\ pc = "wait"
    /\ \E f \in DOMAIN claude :
           /\ claude[f] = "sending"
           /\ ErrChanLen < ErrChanCap
           /\ claude' = [claude EXCEPT ![f] = "failed"]
    /\ UNCHANGED <<scanVars, calls, config, cache, mtime, pc, cursor,
                   processedFiles, skippedFiles, cachedCount, batchStart,
                   printed, written, ret>>

RECURSIVE MarkAll(_, _, _)
\* "for _, file := range batch { cache.markProcessed(file) }", stats being
\* the files os.Stat finds.
MarkAll(c, fs, stats) ==
    IF fs = {} THEN c
    ELSE LET f == CHOOSE x \in fs : TRUE
         IN  MarkAll(markProcessed(c, f, f \in stats, mtime[f]), fs \ {f}, stats)

\* wg.Wait() returns: processBatch joins the errors it finds in the channel
\* into one error, and processBatches returns it wrapped (main prints it),
\* or marks the batch in the cache and moves on.
BatchReturn ==
    /\ pc = "wait"
    /\ LET fs == {processedFiles[k] : k \in Batch}
       IN  /\ \A f \in fs : claude[f] \in {"done", "failed"}
           /\ IF ErrChanLen > 0
                THEN /\ pc' = "returned"
                     /\ ret' = "error"
                     /\ printed' = [f \in DOMAIN printed |->
                                        IF f \in fs /\ claude[f] = "failed"
                                          THEN "claude error" ELSE printed[f]]
                     /\ UNCHANGED <<cache, batchStart>>
                ELSE /\ \E stats \in SUBSET fs : cache' = MarkAll(cache, fs, stats)
                     /\ batchStart' = batchStart + config.BatchSize
                     /\ pc' = "batches"
                     /\ ret' = ret
                     /\ printed' = printed
    /\ UNCHANGED <<scanVars, calls, config, mtime, cursor, processedFiles,
                   skippedFiles, cachedCount, claude, written>>

\* No scanner is called on its own while run is modelled.
ScanIdle ==
    /\ lang = "" /\ lines = <<>> /\ i = 0 /\ st = Normal /\ result = <<>>
    /\ status = "returned" /\ pass = 1 /\ input = <<>> /\ first = <<>>
    /\ calls = <<>>

MaxFiles == 3

MaxBatchSize == 2

\* run as main calls it, after loadCache: the files (by extension), the
\* flags, the cache that was loaded and the times of the files.
InitRunOn(files) ==
    /\ ScanIdle
    /\ config \in [Files : files, BatchSize : 1..MaxBatchSize,
                   ForceProcess : BOOLEAN, CacheOnly : BOOLEAN]
    /\ LET n == Len(config.Files)
       IN  /\ cache \in [1..n -> {NoEntry} \cup Times]
           /\ mtime \in [1..n -> Times]
           /\ claude = [f \in 1..n |-> "none"]
           /\ printed = [f \in 1..n |-> ""]
    /\ pc = IF config.CacheOnly THEN "cache-only" ELSE "filter"
    /\ cursor = 1
    /\ processedFiles = <<>> /\ skippedFiles = 0 /\ cachedCount = 0
    /\ batchStart = 0
    /\ written = {}
    /\ ret = ""

\* One to MaxFiles Go files.
InitRun == InitRunOn({[k \in 1..n |-> ".go"] : n \in 1..MaxFiles})

NextRun ==
    \/ CacheOnlyStep \/ CacheOnlyEnd \/ FilterStep \/ FilterEnd
    \/ StartBatch \/ ClaudeStart \/ ClaudeFinish \/ ErrSend \/ BatchReturn

SpecRun == InitRun /\ [][NextRun]_vars

\* A file of any extension, alone or next to a Go file.
InitExt ==
    InitRunOn({<<e>> : e \in Exts} \cup {<<e, ".go">> : e \in Exts}
                  \cup {<<".go", e>> : e \in Exts})

SpecExt == InitExt /\ [][NextRun]_vars


(***************************************************************************)
(* Line-count preservation                                                 *)
(***************************************************************************)
\* C1: whenever removeGoComments, removeJSComments or removeRustComments
\* returns, the text it returns has exactly as many "\n" as its input, also
\* when the input ends inside a block comment, raw string or template literal
\* that is never closed.
C1_LineCountGoJSRust ==
    (lang \in {"go", "js", "rust"} /\ status = "returned")
        => Newlines(result) = Newlines(input)

\* C2: removePythonComments and removeYAMLComments return, for every input
\* (also one that ends inside an unclosed triple-quoted string), a text with
\* exactly as many "\n" as the input.
C2_LineCountPyYAML ==
    lang \in {"py", "yaml"}
        => /\ status # "panicked"
           /\ status = "returned" => Newlines(result) = Newlines(input)

NoBlockSpansLines(s) ==
    \A k \in 0..(Len(s) - 2) :
        MatchAt(s, k, <<"/", "*">>)
            => LET e == Index(From(s, k + 2), <<"*", "/">>)
               IN  e # -1 /\ Newlines(Slice(s, k, k + 2 + e)) = 0

C4_IdempotentPyJS ==
    (lang \in {"py", "js"} /\ pass = 2 /\ status = "returned") => result = first

\* C5: removeGoComments, removeRustComments, removeYAMLComments and
\* removeTerraformComments are idempotent: applied to the text they returned,
\* they return it unchanged.
C5_IdempotentGoRustYAMLTF ==
    (lang \in {"go", "rust", "yaml", "tf"} /\ pass = 2)
        => /\ status # "panicked"
           /\ status = "returned" => result = first


(***************************************************************************)
(* Strings                                                                 *)
(***************************************************************************)
IsPrefix(s, t) == Len(s) <= Len(t) /\ SubSeq(t, 1, Len(s)) = s

\* Text that is code to every scanner: no quote, backslash or comment rune.
Plain(s) == \A k \in 1..Len(s) : s[k] \in {"a", "E", " ", MB}

\* The line the next step scans (for Terraform: the first line of the text).
Line == lines[i + 1]

\* What the step appends to the result.
Written == SubSeq(result', Len(result) + 1, Len(result'))

\* The output line of the step: what a line-based scanner wrote, without the
\* separator; for Terraform the first line of the text it returns.
OutLine ==
    IF lang = "tf" THEN Split(result')[1]
    ELSE IF Written # <<>> /\ Written[Len(Written)] = NL /\ i < Len(lines) - 1
      THEN SubSeq(Written, 1, Len(Written) - 1)
    ELSE Written

\* A step that scans a line in no cross-line state.
ScansFreshLine == status = "scanning" /\ st = Normal /\ i < Len(lines)

Quotes(l) == IF l = "tf" THEN {"\""} ELSE {"\"", "'"}

\* line[a] opens a quoted string (or char/rune literal) after plain code and
\* line[b] closes it: no delimiter of its kind and no backslash in between,
\* and the delimiters are not part of a Python triple quote or of a doubled
\* quote of YAML.
QuotedAt(line, a, b, l) ==
    /\ a < b
    /\ line[a] \in Quotes(l) /\ line[b] = line[a]
    /\ Plain(SubSeq(line, 1, a - 1))
    /\ \A k \in (a + 1)..(b - 1) : line[k] \notin {line[a], "\\"}
    /\ ~(l = "py" /\ b = a + 1 /\ b < Len(line) /\ line[b + 1] = line[a])
    /\ ~(l = "yaml" /\ line[a] = "'" /\ b < Len(line) /\ line[b + 1] = "'")

\* C6: when a quoted string or char/rune literal is opened outside any
\* comment and closed on the same line, the scanner (each of the six) emits
\* the characters between its delimiters unchanged and in order, whatever
\* comment tokens or other quotes are among them: the output starts with the
\* line up to the closing delimiter.
C6_StringContentKept ==
    [][ScansFreshLine
           => \A a, b \in 1..Len(Line) :
                  QuotedAt(Line, a, b, lang)
                      => IsPrefix(SubSeq(Line, 1, b), Written)]_vars

\* The line-comment tokens of a scanner.
LineComment(l) ==
    CASE l \in {"go", "js", "rust"} -> {<<"/", "/">>}
      [] l \in {"py", "yaml"} -> {<<"#">>}
      [] l = "tf" -> {<<"#">>, <<"/", "/">>}

\* The quotes whose strings escape with a backslash.
EscQuotes(l) == IF l \in {"tf", "yaml"} THEN {"\""} ELSE {"\"", "'"}

\* After line[b], spaces and tabs at most and then a line-comment token.
CommentAfter(line, b, l) ==
    \E k \in b..(Len(line) - 1) :
        /\ \A m \in (b + 1)..k : line[m] \in {" ", "\t"}
        /\ \E t \in LineComment(l) : MatchAt(line, k, t)

\* line[a] opens a backslash-escaping string after plain code, line[e] is a
\* backslash that escapes the delimiter line[e + 1], line[b] is the true
\* closing delimiter, and a line comment follows it.
EscapedQuoteAt(line, a, e, b, l) ==
    /\ a < e /\ e + 1 < b
    /\ line[a] \in EscQuotes(l)
    /\ line[e] = "\\" /\ line[e + 1] = line[a] /\ line[b] = line[a]
    /\ Plain(SubSeq(line, 1, a - 1))
    /\ \A k \in ((a + 1)..(e - 1)) \cup ((e + 2)..(b - 1)) :
           line[k] \notin {line[a], "\\"}
    /\ CommentAfter(line, b, l)

\* C7: in a backslash-escaping string a delimiter that follows a backslash
\* does not close the string: the text between it and the true closing
\* delimiter is kept (comment tokens included), and the line comment after
\* the true closing delimiter is removed: the output line is the line up to
\* the true closing delimiter.
C7_EscapedDelimiter ==
    [][ScansFreshLine
           => \A a, e, b \in 1..Len(Line) :
                  EscapedQuoteAt(Line, a, e, b, lang)
                      => /\ status' # "panicked"
                         /\ TrimRight(OutLine) = SubSeq(Line, 1, b)]_vars

\* A one-line text with an escaped delimiter and a comment token behind it
\* inside the string was scanned: the string is whole, the comment is gone.
C7_Witness ==
    /\ status = "returned" /\ pass = 1 /\ Len(lines) = 1
    /\ \E a, e, b \in 1..Len(lines[1]) :
           /\ EscapedQuoteAt(lines[1], a, e, b, lang)
           /\ \E t \in LineComment(lang) :
                  Index(SubSeq(lines[1], e + 2, b - 1), t) # -1
           /\ result = SubSeq(lines[1], 1, b)

\* line[a] opens a single-quoted string after plain code, line[e] and
\* line[e + 1] are a doubled quote inside it, line[b] is the closing quote,
\* and a comment follows it.  Backslashes may stand anywhere in the string.
DoubledQuoteAt(line, a, e, b) ==
    /\ a < e /\ e + 1 < b
    /\ line[a] = "'" /\ line[e] = "'" /\ line[e + 1] = "'" /\ line[b] = "'"
    /\ Plain(SubSeq(line, 1, a - 1))
    /\ \A k \in ((a + 1)..(e - 1)) \cup ((e + 2)..(b - 1)) : line[k] # "'"
    /\ CommentAfter(line, b, "yaml")

\* C8: in removeYAMLComments a doubled single quote inside a single-quoted
\* string does not close it and a backslash escapes nothing there: a "#"
\* between the doubled quote and the closing quote is kept, and the "#" after
\* the closing quote starts a comment: the output line is the line up to the
\* closing quote.
C8_YAMLDoubledQuote ==
    [][(lang = "yaml" /\ ScansFreshLine)
           => \A a, e, b \in 1..Len(Line) :
                  DoubledQuoteAt(Line, a, e, b) => OutLine = SubSeq(Line, 1, b)]_vars

\* A one-line YAML text whose single-quoted string holds a doubled quote and
\* then a "#" was scanned: the "#" inside is kept, the comment is gone.
C8_Witness ==
    /\ lang = "yaml" /\ status = "returned" /\ pass = 1 /\ Len(lines) = 1
    /\ \E a, e, b \in 1..Len(lines[1]) :
           /\ DoubledQuoteAt(lines[1], a, e, b)
           /\ Index(SubSeq(lines[1], e + 2, b - 1), <<"#">>) # -1
           /\ result = SubSeq(lines[1], 1, b)


(***************************************************************************)
(* Strings that span lines                                                 *)
(***************************************************************************)
\* At 0-based position a of the line, after plain code, a Python triple
\* quote or a JS backtick opens a string that the line does not close.
OpensMultiline(line, a, l) ==
    /\ Plain(SubSeq(line, 1, a))
    /\ \/ /\ l = "py"
          /\ \/ MatchAt(line, a, <<"'", "'", "'">>)
             \/ MatchAt(line, a, <<"\"", "\"", "\"">>)
          /\ Index(From(line, a + 3), Slice(line, a, a + 3)) = -1
       \/ /\ l = "js"
          /\ MatchAt(line, a, <<BT>>)
          /\ Index(From(line, a + 1), <<BT>>) = -1

\* The scanner is in the multi-line string state.
InMultiline(s, l) ==
    \/ l = "py" /\ s.inMultilineString
    \/ l = "js" /\ s.inTemplateLiteralMultiline
    \/ l = "go" /\ s.inRawStringMultiline

\* C9: when a Python triple-quoted string or a JS template literal is opened
\* on a line and not closed on it, the line is written as it is (the code
\* before the opener, the opener, the rest of the line) and the scanner is in
\* the multi-line string state afterwards.
C9_OpenerLineEmitted ==
    [][(lang \in {"py", "js"} /\ ScansFreshLine)
           => \A a \in 0..(Len(Line) - 1) :
                  OpensMultiline(Line, a, lang)
                      => /\ Written = Line \o Sep(i = Len(lines) - 1)
                         /\ InMultiline(st', lang)]_vars

\* The line lies inside an open multi-line string and does not hold the
\* token that closes it.
InsideOpenString(line, s, l) ==
    \/ l = "go" /\ s.inRawStringMultiline /\ Index(line, <<BT>>) = -1
    \/ l = "js" /\ s.inTemplateLiteralMultiline /\ ClosingBackticks(line, 0) = {}
    \/ l = "py" /\ s.inMultilineString /\ Index(line, s.multilineDelim) = -1

\* C10: a line that lies inside an open Python triple-quoted string, JS
\* template literal or Go raw string and does not contain the closing token
\* is written exactly as read, and the cross-line state is left as it was.
C10_InsideLineVerbatim ==
    [][(status = "scanning" /\ i < Len(lines) /\ InsideOpenString(Line, st, lang))
           => /\ status' # "panicked"
              /\ Written = Line \o Sep(i = Len(lines) - 1)
              /\ st' = st]_vars

\* The last line of a text lay inside an open multi-line string, held a
\* comment token and ended in a space, and stands at the end of the result.
C10_Witness ==
    /\ status = "returned" /\ pass = 1 /\ i = Len(lines) /\ i >= 2
    /\ InsideOpenString(lines[i], st, lang)
    /\ \E t \in {<<"/", "/">>, <<"#">>} : Index(lines[i], t) # -1
    /\ lines[i][Len(lines[i])] = " "
    /\ Len(result) >= Len(lines[i])
    /\ SubSeq(result, Len(result) - Len(lines[i]) + 1, Len(result)) = lines[i]


(***************************************************************************)
(* Block comments                                                          *)
(***************************************************************************)
\* Code that holds no quote, backslash or comment rune, over several lines.
PlainText(s) == \A k \in 1..Len(s) : s[k] \in {"a", "E", " ", MB, NL}

RECURSIVE JoinLines(_)
JoinLines(ls) ==
    IF Len(ls) = 1 THEN ls[1] ELSE ls[1] \o <<NL>> \o JoinLines(Tail(ls))

\* The text with the spaces and tabs at the end of each line removed.
TrimLines(s) ==
    LET ls == Split(s) IN JoinLines([k \in 1..Len(ls) |-> TrimRight(ls[k])])

\* The line breaks of a text.
OnlyNewlines(s) == SelectSeq(s, LAMBDA c : c = NL)

RECURSIVE NestedEnd(_, _, _)
\* Rust's rule for block comments read on the whole text: from 0-based
\* position k inside a comment of depth d, the position after the "*/" that
\* brings the depth to 0, or -1 when the text ends first.
NestedEnd(s, k, d) ==
    IF k >= Len(s) THEN -1
    ELSE IF MatchAt(s, k, <<"/", "*">>) THEN NestedEnd(s, k + 2, d + 1)
    ELSE IF MatchAt(s, k, <<"*", "/">>)
      THEN IF d = 1 THEN k + 2 ELSE NestedEnd(s, k + 2, d - 1)
    ELSE NestedEnd(s, k + 1, d)

\* The text is plain code, then a block comment that begins at 0-based
\* position a and ends before position e, then plain code.
OneComment(s, a, e) ==
    /\ MatchAt(s, a, <<"/", "*">>)
    /\ PlainText(Slice(s, 0, a))
    /\ e # -1
    /\ PlainText(From(s, e))

\* The text without that comment: its line breaks stay, and every line loses
\* the spaces and tabs at its end.
WithoutComment(s, a, e) ==
    TrimLines(Slice(s, 0, a) \o OnlyNewlines(Slice(s, a, e)) \o From(s, e))

\* C11: removeRustComments ends a block comment only where the nesting depth
\* returns to 0, on the opening line and on later lines alike: a text that is
\* plain code around one block comment, nested to any depth and over any
\* number of lines, comes back as the code alone (with the comment's line
\* breaks).
C11_RustNestedComment ==
    (lang = "rust" /\ status \in {"returned", "panicked"})
        => \A a \in 0..(Len(input) - 2) :
               LET e == NestedEnd(input, a + 2, 1)
               IN  OneComment(input, a, e)
                       => /\ status = "returned"
                          /\ result = WithoutComment(input, a, e)

\* A comment with a comment nested in it, spread over more than one line and
\* followed by code, was removed: the code and the line breaks are left.
C11_Witness ==
    /\ lang = "rust" /\ status = "returned" /\ pass = 1
    /\ \E a \in 0..(Len(input) - 2) :
           LET e == NestedEnd(input, a + 2, 1)
           IN  /\ OneComment(input, a, e)
               /\ Index(Slice(input, a + 2, e), <<"/", "*">>) # -1
               /\ Newlines(Slice(input, a, e)) >= 1
               /\ Index(From(input, e), <<"a">>) # -1
               /\ result = WithoutComment(input, a, e)

\* The text is plain code, then a block comment that begins at 0-based
\* position a and ends with the first "*/" after its "/*" (before position
\* e), then code that holds no comment opener but may hold further "*/".
FirstCloseComment(s, a, e) ==
    /\ MatchAt(s, a, <<"/", "*">>)
    /\ PlainText(Slice(s, 0, a))
    /\ e # -1
    /\ \A k \in (e + 1)..Len(s) : s[k] \in {"a", "E", " ", MB, NL, "*", "/"}
    /\ Index(From(s, e), <<"/", "*">>) = -1
    /\ Index(From(s, e), <<"/", "/">>) = -1

\* The position after the first "*/" at or after 0-based position k, or -1.
FirstEnd(s, k) ==
    LET x == Index(From(s, k), <<"*", "/">>) IN IF x = -1 THEN -1 ELSE k + x + 2

\* C12: in removeGoComments and removeJSComments block comments do not nest:
\* the first "*/" after the "/*" closes the comment, on the same line or on a
\* later one, and the text after it (a further "*/" included) is emitted as
\* code.
C12_FirstCloseEnds ==
    (lang \in {"go", "js"} /\ status = "returned")
        => \A a \in 0..(Len(input) - 2) :
               LET e == FirstEnd(input, a + 2)
               IN  FirstCloseComment(input, a, e)
                       => result = WithoutComment(input, a, e)


(***************************************************************************)
(* Heredocs                                                                *)
(***************************************************************************)
\* The 0-based position after "<<" or "<<-" when the "<<" stands at a.
AfterTrigger(s, a) == IF a + 2 < Len(s) /\ s[a + 3] = "-" THEN a + 3 ELSE a + 2

RECURSIVE LinesLen(_, _)
\* The length of the first n lines of ls with the line break after each.
LinesLen(ls, n) == IF n = 0 THEN 0 ELSE LinesLen(ls, n - 1) + Len(ls[n]) + 1

\* After plain code a heredoc trigger "<<ID" or "<<-ID" stands at 0-based
\* position a, and line t >= 2, counted from the trigger line, is the first
\* line after the trigger line whose trimmed content is ID.
HeredocAt(s, a, t) ==
    /\ MatchAt(s, a, <<"<", "<">>)
    /\ \A k \in 1..a : s[k] \in {"a", " ", NL}
    /\ LET d == AfterTrigger(s, a)
           dEnd == DelimiterEnd(s, d)
           ls == Split(From(s, dEnd))
       IN  /\ dEnd > d
           /\ t \in 2..Len(ls)
           /\ TrimSpace(ls[t]) = Slice(s, d, dEnd)
           /\ \A k \in 2..(t - 1) : TrimSpace(ls[k]) # Slice(s, d, dEnd)

\* The 0-based position after the terminator line and its line break.
HeredocEnd(s, a, t) ==
    LET dEnd == DelimiterEnd(s, AfterTrigger(s, a))
        ls == Split(From(s, dEnd))
    IN  IF t = Len(ls) THEN Len(s) ELSE dEnd + LinesLen(ls, t)

\* C13: after a heredoc trigger outside a string, removeTerraformComments
\* emits the rest of the trigger line and every following line up to and
\* including the first one whose trimmed content is the delimiter unchanged,
\* and removes comments again from the line after it: the result is the text
\* up to the end of the terminator line followed by the stripped remainder.
C13_HeredocKept ==
    (lang = "tf" /\ status \in {"returned", "panicked"})
        => \A a \in 0..(Len(input) - 2) : \A t \in 2..(Len(input) + 1) :
               HeredocAt(input, a, t)
                   => LET e == HeredocEnd(input, a, t)
                          r == removeTerraformComments(From(input, e))
                      IN  ~r.panic
                              => /\ status = "returned"
                                 /\ result = Slice(input, 0, e) \o r.out


(***************************************************************************)
(* Rust raw strings                                                        *)
(***************************************************************************)
\* The token that closes a raw string opened with n '#'.
CloseToken(n) == <<"\"">> \o [k \in 1..n |-> "#"]

\* After plain code that does not end in a letter, a raw string with n '#'
\* opens at 0-based position a of s: r, n times '#', '"'.
RawOpensAt(s, a, n) ==
    /\ a + n + 2 <= Len(s)
    /\ s[a + 1] = "r"
    /\ \A k \in 1..n : s[a + 1 + k] = "#"
    /\ s[a + n + 2] = "\""
    /\ Plain(Slice(s, 0, a))
    /\ a > 0 => s[a] = " "

\* The 0-based position of the first closing token after the opener, or -1.
RawClose(s, a, n) ==
    LET x == Index(From(s, a + n + 2), CloseToken(n))
    IN  IF x = -1 THEN -1 ELSE a + n + 2 + x

\* C14: a raw string of removeRustComments that closes on its line is closed
\* only by '"' followed by as many '#' as opened it: the content, with any
\* '"' followed by fewer '#', is emitted unchanged, and the line comment
\* after the closing token is removed: the output line is the line up to the
\* end of the closing token.
C14_RawStringHashes ==
    [][(lang = "rust" /\ ScansFreshLine)
           => \A a \in 0..(Len(Line) - 1) : \A n \in 0..Len(Line) :
                  LET b == RawClose(Line, a, n)
                  IN  (/\ RawOpensAt(Line, a, n)
                       /\ b # -1
                       /\ CommentAfter(Line, b + n + 1, "rust"))
                          => /\ status' # "panicked"
                             /\ OutLine = Slice(Line, 0, b + n + 1)]_vars

\* C15: when a raw string of removeRustComments is opened on a line and its
\* closing token first occurs on a later line, every line between the two is
\* emitted unchanged, "//" and "/*" inside it included.
C15_RawStringAcrossLines ==
    (lang = "rust" /\ status = "returned")
        => \A a \in 0..(Len(lines[1]) - 1) : \A n \in 0..Len(lines[1]) :
               (/\ RawOpensAt(lines[1], a, n)
                /\ RawClose(lines[1], a, n) = -1)
                   => \A q \in 2..Len(lines) :
                          ((\A k \in 2..(q - 1) : Index(lines[k], CloseToken(n)) = -1)
                           /\ Index(lines[q], CloseToken(n)) # -1)
                              => \A k \in 2..(q - 1) :
                                     /\ Len(Split(result)) >= k
                                     /\ Split(result)[k] = lines[k]


(***************************************************************************)
(* Terraform: totality                                                     *)
(***************************************************************************)
\* C16: removeTerraformComments returns a result for every document, also
\* one that ends inside a string, a block comment or a heredoc, or right
\* after "<<" or "<<-": it never fails.
C16_TerraformNeverFails == lang = "tf" => status # "panicked"


(***************************************************************************)
(* collapseExcessiveNewlines                                               *)
(***************************************************************************)
\* The characters a whitespace-only line is made of, and the line break.
Blank == {" ", "\t", NL}

\* A newline, one or more whitespace characters, and a newline occur in s.
HasBlankStretch(s) ==
    \E p \in 1..Len(s) : \E q \in (p + 2)..Len(s) :
        /\ s[p] = NL
        /\ s[q] = NL
        /\ \A k \in (p + 1)..(q - 1) : s[k] \in Blank

\* The text handed to collapseExcessiveNewlines and the text it returned.
Collapsed == lang = "tf" /\ status = "written"

\* C17: collapseExcessiveNewlines reaches a fixed point: the text it returns
\* contains no newline, one or more whitespace characters, newline; and
\* applying it to its own result returns that result.
C17_CollapseFixedPoint ==
    Collapsed
        => /\ result = collapseExcessiveNewlines(first)
           /\ ~HasBlankStretch(result)
           /\ collapseExcessiveNewlines(result) = result

\* A text with such an occurrence was collapsed.
C17_Witness ==
    /\ Collapsed
    /\ HasBlankStretch(first)
    /\ result # first
    /\ \E k \in 1..Len(result) : result[k] = NL

RECURSIVE NewlineRun(_, _)
\* The number of consecutive newlines of s from 0-based position p on.
NewlineRun(s, p) ==
    IF p < Len(s) /\ s[p + 1] = NL THEN 1 + NewlineRun(s, p + 1) ELSE 0

RECURSIVE RunsCollapsedTo(_, _, _)
\* The text s from position p on with every maximal run of three or more
\* newlines replaced by n newlines, and everything else kept.
RunsCollapsedTo(s, p, n) ==
    IF p >= Len(s) THEN <<>>
    ELSE IF s[p + 1] # NL THEN <<s[p + 1]>> \o RunsCollapsedTo(s, p + 1, n)
    ELSE LET r == NewlineRun(s, p)
         IN  (IF r >= 3 THEN [k \in 1..n |-> NL] ELSE [k \in 1..r |-> NL])
                 \o RunsCollapsedTo(s, p + r, n)

\* No two newlines of s are adjacent.
OnlySingleNewlines(s) == \A k \in 1..(Len(s) - 1) : ~(s[k] = NL /\ s[k + 1] = NL)

\* No space or tab occurs in s.
NoSpaces(s) == \A k \in 1..Len(s) : s[k] \notin {" ", "\t"}

\* C18 as stated: every maximal run of three or more newlines becomes one
\* newline, and a text with only single newlines is returned unchanged.
C18_RunsOfThree ==
    Collapsed
        => /\ NoSpaces(first) => result = RunsCollapsedTo(first, 0, 1)
           /\ OnlySingleNewlines(first) => result = first

RECURSIVE BlankRunEnd(_, _)
\* The 0-based position after the maximal run of blanks and newlines that
\* begins at position p.
BlankRunEnd(s, p) ==
    IF p < Len(s) /\ s[p + 1] \in Blank THEN BlankRunEnd(s, p + 1) ELSE p

RECURSIVE StretchesCollapsed(_, _)
\* The text s from position p on where, in every maximal run of blanks and
\* newlines whose first and last newline are two or more characters apart,
\* the stretch from the first to the last newline is replaced by one newline.
StretchesCollapsed(s, p) ==
    IF p >= Len(s) THEN <<>>
    ELSE IF s[p + 1] \notin Blank
      THEN <<s[p + 1]>> \o StretchesCollapsed(s, p + 1)
    ELSE LET w   == BlankRunEnd(s, p)
             nls == {k \in (p + 1)..w : s[k] = NL}
             lo  == CHOOSE k \in nls : \A m \in nls : k <= m
             hi  == CHOOSE k \in nls : \A m \in nls : k >= m
         IN  (IF nls # {} /\ hi - lo >= 2
                THEN SubSeq(s, p + 1, lo - 1) \o <<NL>> \o SubSeq(s, hi + 1, w)
                ELSE SubSeq(s, p + 1, w))
                 \o StretchesCollapsed(s, w)

\* C18: in every maximal run of whitespace whose first and last newline are
\* two or more characters apart (three or more newlines, or newlines with
\* only spaces and tabs between them), collapseExcessiveNewlines replaces the
\* stretch from the first to the last newline by exactly one newline; every
\* other character, two adjacent newlines included, is kept.  So a text is
\* returned unchanged exactly when it has no whitespace-only line between two
\* newlines.
C18_StretchesCollapsed ==
    Collapsed
        => /\ result = StretchesCollapsed(first, 0)
           /\ (result = first) <=> ~HasBlankStretch(first)

\* A run of three or more newlines between text became one newline, and a
\* text whose newlines are all single was changed.
C18_Witness ==
    /\ Collapsed
    /\ \/ /\ first = <<"a", NL, NL, NL, "a">>
          /\ result = <<"a", NL, "a">>
       \/ /\ OnlySingleNewlines(first)
          /\ HasBlankStretch(first)
          /\ result # first

CodeLine(line) == Len(line) > 0 /\ \A k \in 1..Len(line) : line[k] = "a"

\* A line that is a line comment from its first column on.
CommentOnlyLine(line, l) == \E tok \in LineComment(l) : IsPrefix(tok, line)

\* The text is a code line, a comment-only line and a code line.
CodeCommentCode ==
    /\ Len(lines) = 3
    /\ CodeLine(lines[1])
    /\ CommentOnlyLine(lines[2], lang)
    /\ CodeLine(lines[3])

\* C20: for JS and Python, when the text is a code line, a comment-only line
\* and a code line, comment removal followed by collapseExcessiveNewlines
\* yields the two code lines separated by a single newline.
C20_CommentOnlyLineLeavesNoGap ==
    (lang \in {"js", "py"} /\ status = "written" /\ CodeCommentCode)
        => result = lines[1] \o <<NL>> \o lines[3]


(***************************************************************************)
(* The line on which a cross-line context ends                             *)
(***************************************************************************)
\* The 0-based position after the token that closes the open Python
\* triple-quoted string or JS template literal on the line, -1 when the line
\* does not close it (or no such string is open).
MultilineCloseEnd(line, s, l) ==
    IF l = "py" /\ s.inMultilineString /\ Index(line, s.multilineDelim) # -1
      THEN Index(line, s.multilineDelim) + 3
    ELSE IF l = "js" /\ s.inTemplateLiteralMultiline
              /\ ClosingBackticks(line, 0) # {}
      THEN 1 + CHOOSE k \in ClosingBackticks(line, 0) :
                   \A m \in ClosingBackticks(line, 0) : k <= m
    ELSE -1

\* C26: in removePythonComments and removeJSComments, on the line where an
\* open triple-quoted string or template literal closes, the text up to and
\* including the closing token is written unchanged and the rest of the line
\* is scanned as normal code: a line comment after the closing token is
\* removed, and a multi-line string opened after it is tracked.
C26_CloseLineRestScanned ==
    [][(lang \in {"py", "js"} /\ status = "scanning" /\ i < Len(lines)
        /\ MultilineCloseEnd(Line, st, lang) # -1)
           => LET e == MultilineCloseEnd(Line, st, lang)
              IN  /\ status' # "panicked"
                  /\ IsPrefix(Slice(Line, 0, e), Written)
                  /\ CommentAfter(Line, e, lang) => OutLine = Slice(Line, 0, e)
                  /\ OpensMultiline(From(Line, e), 0, lang)
                         => InMultiline(st', lang)]_vars


\* The 0-based position after the token that ends the context the line was
\* begun in: the "*/" that closes the block comment carried over from an
\* earlier line (for Rust the one that brings the depth to 0), or the backtick
\* that closes Go's multi-line raw string; -1 when the line does not end it.
ContextCloseEnd(line, s, l) ==
    IF l = "go" /\ s.inRawStringMultiline
      THEN IF Index(line, <<BT>>) = -1 THEN -1 ELSE Index(line, <<BT>>) + 1
    ELSE IF l \in {"go", "js"} /\ s.inBlockComment
      THEN FirstEnd(line, 0)
    ELSE IF l = "rust" /\ s.inBlockComment
      THEN NestedEnd(line, 0, s.blockCommentDepth)
    ELSE -1

\* What the scanner of language l does with a line it begins in no context.
FreshLine(line, l, last, roomy) ==
    CASE l = "go" -> GoLine(line, Normal, last)
      [] l = "js" -> JSLine(line, Normal, last)
      [] l = "rust" -> RustLine(line, Normal, last, roomy)

\* The step begins a line in one cross-line context and the line ends it.
ClosesContext ==
    /\ lang \in {"go", "js", "rust"}
    /\ status = "scanning" /\ i < Len(lines)
    /\ ContextCloseEnd(Line, st, lang) # -1

\* C27: in removeGoComments, removeJSComments and removeRustComments, when a
\* block comment begun on an earlier line closes in the middle of a line,
\* nothing of the comment is written and the rest of the line is scanned as a
\* line of normal code is (what is written, the state left behind and a
\* failure are those of a fresh scan of the rest); in removeGoComments the
\* same holds for the rest after the closing backtick of a multi-line raw
\* string, the text up to the backtick being written unchanged before it.
C27_RestScannedAsCode ==
    [][ClosesContext
           => LET e    == ContextCloseEnd(Line, st, lang)
                  rest == SubSeq(Line, e + 1, Len(Line))
                  pre  == IF st.inRawStringMultiline
                            THEN SubSeq(Line, 1, e) ELSE <<>>
              IN  /\ \E roomy \in BOOLEAN :
                         LET r == FreshLine(rest, lang, i = Len(lines) - 1, roomy)
                         IN  IF r.panic THEN status' = "panicked"
                             ELSE /\ status' # "panicked"
                                  /\ Written = pre \o r.out
                                  /\ st' = r.st
                  /\ (Plain(rest) /\ status' # "panicked")
                         => OutLine = pre \o TrimRight(rest)]_vars

\* A block comment begun on the first line ended on the last line of a text,
\* code followed the "*/", and the code alone was written for that line.
C27_Witness ==
    /\ status = "returned" /\ pass = 1 /\ lang \in {"go", "js", "rust"}
    /\ Len(lines) = 2
    /\ MatchAt(lines[1], 0, <<"/", "*">>)
    /\ Index(From(lines[1], 2), <<"*", "/">>) = -1
    /\ Index(From(lines[1], 2), <<"/", "*">>) = -1
    /\ \E k \in 0..Len(lines[2]) :
           /\ MatchAt(lines[2], k, <<"*", "/">>)
           /\ Index(Slice(lines[2], 0, k + 1), <<"*", "/">>) = -1
           /\ Index(Slice(lines[2], 0, k), <<"/", "*">>) = -1
           /\ Plain(From(lines[2], k + 2))
           /\ TrimRight(From(lines[2], k + 2)) # <<>>
           /\ result = <<NL>> \o TrimRight(From(lines[2], k + 2))


(***************************************************************************)
(* Line comments and trailing blanks                                       *)
(***************************************************************************)
\* The five scanners that work line by line.
LineBased == {"go", "js", "py", "rust", "yaml"}

EndsBlank(s) == s # <<>> /\ s[Len(s)] \in {" ", "\t"}

\* The longest prefix of s that does not end with a space or a tab.
WithoutTrailingBlanks(s) ==
    LET ks == {k \in 0..Len(s) : k = 0 \/ s[k] \notin {" ", "\t"}}
    IN  SubSeq(s, 1, CHOOSE k \in ks : \A m \in ks : k >= m)

\* C28: in the five line-based scanners (Go, JS, Python, Rust, YAML), when a
\* line-comment token occurs on a line after plain code, or after plain code
\* with one closed string or char literal in it (so outside every string,
\* char literal and comment), the output line is exactly the text
\* before the token with its trailing spaces and tabs removed; and no line
\* written by normal scanning ends with a space or a tab.
C28_LineCommentDropped ==
    [][(lang \in LineBased /\ ScansFreshLine)
           => /\ \A k \in 0..(Len(Line) - 1) :
                     (/\ Plain(Slice(Line, 0, k))
                      /\ \E t \in LineComment(lang) : MatchAt(Line, k, t))
                         => /\ status' # "panicked"
                            /\ OutLine = WithoutTrailingBlanks(Slice(Line, 0, k))
              /\ \A a, b \in 1..Len(Line) : \A k \in b..(Len(Line) - 1) :
                     (/\ QuotedAt(Line, a, b, lang)
                      /\ Plain(SubSeq(Line, b + 1, k))
                      /\ \E t \in LineComment(lang) : MatchAt(Line, k, t))
                         => /\ status' # "panicked"
                            /\ OutLine = WithoutTrailingBlanks(Slice(Line, 0, k))
              /\ status' # "panicked" => ~EndsBlank(OutLine)]_vars

\* A line of code, blanks and a line comment was scanned and only the code
\* was written.
C28_Witness ==
    /\ status = "returned" /\ pass = 1 /\ lang \in LineBased
    /\ Len(lines) = 1
    /\ \E k \in 2..(Len(input) - 1) :
           /\ Plain(Slice(input, 0, k))
           /\ input[k] = " " /\ input[1] # " "
           /\ \E t \in LineComment(lang) : MatchAt(input, k, t)
           /\ result = WithoutTrailingBlanks(Slice(input, 0, k))


\* The first line of a Terraform text is plain code (blanks included) up to
\* 0-based position k, where a comment begins that takes the rest of the
\* line: a "#" or "//" comment, or a "/*" comment whose "*/" ends the line.
TFInlineCommentAt(k) ==
    /\ lang = "tf" /\ status = "returned" /\ pass = 1
    /\ k < Len(lines[1])
    /\ Plain(Slice(lines[1], 0, k))
    /\ \/ \E t \in LineComment("tf") : MatchAt(lines[1], k, t)
       \/ /\ MatchAt(lines[1], k, <<"/", "*">>)
          /\ FirstEnd(lines[1], k + 2) = Len(lines[1])

C30_OneContext ==
    /\ lang = "go" => ~(st.inBlockComment /\ st.inRawStringMultiline)
    /\ lang = "js" => ~(st.inBlockComment /\ st.inTemplateLiteralMultiline)
    /\ lang = "py" => (st.inMultilineString <=> st.multilineDelim # <<>>)
    /\ lang = "rust" => /\ st.blockCommentDepth >= 0
                        /\ st.inBlockComment <=> st.blockCommentDepth >= 1

\* A scanner stands at a line boundary after a context has been entered and
\* left again: Python's multi-line string has closed, or Rust's nested block
\* comment has come back to depth 0.
C30_Witness ==
    /\ status = "scanning" /\ i = 2 /\ st = Normal
    /\ \/ /\ lang = "py"
          /\ \E d \in {<<"'", "'", "'">>, <<"\"", "\"", "\"">>} :
                 MatchAt(lines[1], 0, d) /\ Index(lines[2], d) # -1
       \/ /\ lang = "rust"
          /\ lines[1] = <<"/", "*", "/", "*">>
          /\ NestedEnd(lines[2], 0, 2) # -1


(***************************************************************************)
(* run                                                                     *)
(***************************************************************************)
\* The extensions the tool has a scanner for.
SupportedExts ==
    {".js", ".ts", ".jsx", ".tsx", ".go", ".py", ".rs", ".tf", ".tfvars",
     ".yaml", ".yml"}

Unsupported(f) == config.Files[f] \notin SupportedExts

\* The loop of run is at a file, outside the cache-only mode.
AtFile == pc = "filter" /\ cursor <= NumFiles

NeedsProcessing(f) == cache[f] = NoEntry \/ mtime[f] > cache[f]

\* C22: FileCache.shouldProcess returns true when the file has no cache entry
\* under its path, true when the file's modification time is strictly after
\* the cached time, and false otherwise (for a file os.Stat finds); it does
\* not change the cache.  So without -force run skips a file as unchanged
\* only if it has an entry that is not older than the file, and never skips a
\* file that has no entry or a newer time as unchanged; the loop that asks
\* leaves the cache as it is.
C22_ShouldProcess ==
    [][AtFile
           => /\ \A f \in 1..NumFiles :
                     shouldProcess(cache, f, TRUE, mtime[f])
                         = [should |-> NeedsProcessing(f), err |-> FALSE]
              /\ cache' = cache
              /\ ~config.ForceProcess
                     => /\ printed'[cursor] = "unchanged"
                               => ~NeedsProcessing(cursor)
                        /\ NeedsProcessing(cursor)
                               => printed'[cursor] # "unchanged"]_vars

\* Without -force the loop has left a file whose time equals the cached time
\* as unchanged and has removed the comments of a file newer than its entry.
C22_Witness ==
    /\ ~config.ForceProcess /\ pc = "batches" /\ NumFiles = 2
    /\ printed = <<"unchanged", "removed">>
    /\ cache[1] = mtime[1]
    /\ cache[2] # NoEntry /\ cache[2] < mtime[2]


(***************************************************************************)
(* processBatches                                                          *)
(***************************************************************************)
\* The batch of the file at position k of the list handed to processBatches:
\* batches of BatchSize files in input order, the last one possibly shorter.
BatchOf(k) == (k - 1) \div config.BatchSize

Positions == 1..Len(processedFiles)

\* The files whose goroutine exists and has not finished runClaude.
InProgress == {f \in DOMAIN claude : claude[f] \in {"spawned", "running"}}

\* No invocation of a later batch has begun before every invocation of the
\* earlier batches has finished, and at most BatchSize are in progress.
OneBatchAtATime ==
    /\ Cardinality(InProgress) <= config.BatchSize
    /\ \A j, k \in Positions :
           (BatchOf(j) < BatchOf(k) /\ claude[processedFiles[k]] # "none")
               => claude[processedFiles[j]] \in {"done", "failed"}
    /\ \A j, k \in Positions :
           (claude[processedFiles[j]] \in {"spawned", "running"}
            /\ claude[processedFiles[k]] \in {"spawned", "running"})
               => BatchOf(j) = BatchOf(k)

\* processBatches was called and has returned without an error.
BatchesDone ==
    pc = "returned" /\ ret = "nil" /\ processedFiles # <<>>

\* C23: for every batch size >= 1 processBatches puts each file in exactly
\* one batch of at most batchSize files, in input order, and runs the batches
\* one after another: the invocations in progress all belong to the batch
\* being run, no invocation of a later batch has started before every
\* invocation of the earlier batches has finished, at most batchSize
\* invocations are in progress at any time, and when processBatches has gone
\* through its batches every file it was given has been through its own.
C23_BatchesInOrder ==
    /\ config.BatchSize >= 1
    /\ OneBatchAtATime
    /\ Cardinality(Batch) <= config.BatchSize
    /\ \A k \in Positions :
           claude[processedFiles[k]] \in {"spawned", "running"} => k \in Batch
    /\ BatchesDone => \A k \in Positions : claude[processedFiles[k]] = "done"

\* The second batch is running at full width after the first has finished.
C23_Witness ==
    \E j, k \in Positions :
        /\ BatchOf(j) < BatchOf(k)
        /\ claude[processedFiles[j]] = "done"
        /\ claude[processedFiles[k]] = "running"
        /\ Cardinality(InProgress) = config.BatchSize


(***************************************************************************)
(* Error handling of run                                                   *)
(***************************************************************************)
\* run has returned, in the mode that removes comments.
RunOver == pc = "returned" /\ ret \in {"nil", "error"} /\ ~config.CacheOnly

\* The file went through comment removal and its Claude command succeeded.
FullyProcessed(f) == claude[f] = "done"

\* C24: a file that fails to process only produces a warning and does not
\* stop the operation, whether it fails while its comments are removed or
\* while Claude runs on it: when run has returned, every file whose comments
\* were removed has been handed to Claude, and the result is an error only
\* if no file was processed successfully.
C24_FailureOnlyWarns ==
    RunOver =>
        /\ \A k \in Positions :
               claude[processedFiles[k]] \in {"done", "failed"}
        /\ ret = "error" => \A f \in DOMAIN claude : ~FullyProcessed(f)

(***************************************************************************)
(* Scanner calls side by side: each call has its own locals, declared at   *)
(* the top of the function, and the package has no variables.              *)
(***************************************************************************)
Callers == {1, 2}

MaxParTok == 2

\* Per language a plain rune, the line break and a token that opens a
\* context lasting beyond the line (or, for Terraform, beyond the text).
ParTokens(l) ==
    CASE l \in {"go", "js", "rust"} -> {<<"a">>, <<NL>>, <<"/", "*">>}
      [] l = "py" -> {<<"a">>, <<NL>>, <<"\"", "\"", "\"">>}
      [] l = "yaml" -> {<<"a">>, <<NL>>, <<"#">>}
      [] l = "tf" -> {<<"E">>, <<NL>>, <<"<", "<", "-">>}

ParDocs(l) == {Flatten(ts) : ts \in SeqsUpTo(ParTokens(l), MaxParTok)}

\* The documents of a caller's second call: one token, enough to show
\* whether anything of the first call is still there.
NextDocs(l) == {Flatten(ts) : ts \in SeqsUpTo(ParTokens(l), 1)}

\* A function whose flags outlive the call: the next document starts with
\* the flags the previous one left.
StartFlagsKept(prev) == prev

\* "inBlockComment := false ..." at the top of each function: the flags a
\* call starts with, whatever an earlier call left in its own.
StartFlags(prev) == Normal

\* The loop body of the scanner of language l on one line.
ScanLine(l, line, s, last, roomy) ==
    CASE l = "go" -> GoLine(line, s, last)
      [] l = "js" -> JSLine(line, s, last)
      [] l = "py" -> PyLine(line, s, last, roomy)
      [] l = "rust" -> RustLine(line, s, last, roomy)
      [] l = "yaml" -> YAMLLine(line, s, last)

\* The locals of a call that has just been made; left are the flags of the
\* caller's previous call of the function, nth counts the caller's calls.
NewCall(l, doc, left, nth) ==
    [lang |-> l, input |-> doc, lines |-> Split(doc), i |-> 0,
     st |-> StartFlags(left), result |-> <<>>, status |-> "scanning",
     left |-> left, nth |-> nth]

ParCalls ==
    UNION {{NewCall(l, doc, Normal, 1) : doc \in ParDocs(l)} : l \in Langs}

InitPar ==
    /\ lang = "" /\ lines = <<>> /\ i = 0 /\ st = Normal /\ result = <<>>
    /\ status = "returned" /\ pass = 1 /\ input = <<>> /\ first = <<>>
    /\ RunIdle
    /\ calls \in [Callers -> ParCalls]

\* No call has panicked: a panic in any goroutine ends the process.
ProcessAlive == \A c \in Callers : calls[c].status # "panicked"

\* The calls after call c has panicked: the others never return.
Crashed(c) ==
    [d \in Callers |->
         IF d = c THEN [calls[d] EXCEPT !.status = "panicked"]
         ELSE IF calls[d].status = "scanning"
           THEN [calls[d] EXCEPT !.status = "killed"]
         ELSE calls[d]]

\* Call c runs one iteration of its loop (Terraform: its one loop over the
\* whole text); it touches its own locals only.
ParStep(c) ==
    /\ ProcessAlive
    /\ calls[c].status = "scanning"
    /\ LET k == calls[c]
       IN  IF k.lang = "tf"
             THEN LET r == removeTerraformComments(k.input)
                  IN  calls' = IF r.panic THEN Crashed(c)
                               ELSE [calls EXCEPT ![c].result = r.out,
                                                  ![c].i = Len(k.lines),
                                                  ![c].status = "returned"]
             ELSE \E roomy \in BOOLEAN :
                  LET r == ScanLine(k.lang, k.lines[k.i + 1], k.st,
                                    k.i = Len(k.lines) - 1, roomy)
                  IN  calls' = IF r.panic THEN Crashed(c)
                               ELSE [calls EXCEPT
                                        ![c].result = @ \o r.out,
                                        ![c].st = r.st,
                                        ![c].i = @ + 1,
                                        ![c].status =
                                            IF k.i + 1 = Len(k.lines)
                                              THEN "returned" ELSE "scanning"]
    /\ UNCHANGED <<scanVars, runVars>>

\* The caller of call c calls the same function on its next document.
ParCall(c) ==
    /\ ProcessAlive
    /\ calls[c].status = "returned" /\ calls[c].nth = 1
    /\ \E doc \in NextDocs(calls[c].lang) :
           calls' = [calls EXCEPT
                        ![c] = NewCall(calls[c].lang, doc, calls[c].st, 2)]
    /\ UNCHANGED <<scanVars, runVars>>

NextPar == \E c \in Callers : ParStep(c) \/ ParCall(c)

SpecPar == InitPar /\ [][NextPar]_vars

RECURSIVE RunsAlone(_, _, _, _, _)
\* What the scanner of l can do with the lines from idx on when nothing
\* else runs: the texts it can return, and whether it can panic.
RunsAlone(l, ls, idx, s, res) ==
    IF idx = Len(ls) THEN {[out |-> res, panic |-> FALSE]}
    ELSE UNION {LET r == ScanLine(l, ls[idx + 1], s, idx = Len(ls) - 1, roomy)
                IN  IF r.panic THEN {[out |-> <<>>, panic |-> TRUE]}
                    ELSE RunsAlone(l, ls, idx + 1, r.st, res \o r.out)
                : roomy \in BOOLEAN}

\* The outcomes of the function of l on doc, from its input text alone.
OutcomesOf(l, doc) ==
    IF l = "tf"
      THEN LET r == removeTerraformComments(doc)
           IN  {[out |-> IF r.panic THEN <<>> ELSE r.out, panic |-> r.panic]}
      ELSE RunsAlone(l, Split(doc), 0, Normal, <<>>)

MaxWsTok == 6

\* Texts of a non-whitespace rune and the three whitespace runes that occur
\* in source files.
WsDocs == SeqsUpTo({"a", " ", "\t", NL}, MaxWsTok)

\* collapseExcessiveNewlines(content) is called.
InitCollapse ==
    /\ lang = "" /\ lines = <<>> /\ i = 0 /\ st = Normal
    /\ input \in WsDocs
    /\ result = input
    /\ status = "returned"
    /\ pass = 1
    /\ first = <<>>
    /\ Alone

NextCollapse == CollapseStep

SpecCollapse == InitCollapse /\ [][NextCollapse]_vars

\* The loop is sequential code: an iteration that can be made is made.
SpecCollapseFair == SpecCollapse /\ WF_vars(NextCollapse)

\* An iteration of the loop of collapseExcessiveNewlines that found a match.
Rewrote == status \in {"returned", "collapsing"} /\ status' = "collapsing"

\* C31: collapseExcessiveNewlines terminates on every input: each iteration
\* of its loop that finds a match strictly shortens the text, so that the
\* iterations are at most as many as the runes of the input, and the loop
\* is eventually left.
C31_CollapseTerminates ==
    /\ [][Rewrote => Len(result') < Len(result)]_vars
    /\ (status = "returned") ~> (status = "written")

\* The loop has rewritten the text and has been left.
C31_Witness == status = "written" /\ Len(result) < Len(input)


(***************************************************************************)
(* Same-line constructs that contain a rune of more than one byte          *)
(***************************************************************************)
\* The constructs of language l that open and close on one line around one
\* two-byte rune, with whether the scanner is to keep them.
MBConstructs(l) ==
    CASE l \in {"go", "js"} ->
             {[text |-> <<"/", "*", MB, "*", "/">>, kept |-> FALSE]}
      [] l = "py" ->
             {[text |-> <<"\"", "\"", "\"", MB, "\"", "\"", "\"">>, kept |-> TRUE],
              [text |-> <<"'", "'", "'", MB, "'", "'", "'">>, kept |-> TRUE]}
      [] l = "rust" ->
             {[text |-> <<"r", "\"", MB, "\"">>, kept |-> TRUE]}
      [] OTHER -> {}

\* C32: when a same-line construct contains a rune of more than one byte (a
\* Go or JS inline block comment, a Rust raw string, a Python single-line
\* triple-quoted string) and plain text follows it on the line, the scanner
\* returns, never indexing past the end of the line, and what it returns is
\* the construct where it is kept, then the text after it unchanged.
C32_MultiByteConstruct ==
    (pass = 1 /\ status # "scanning") =>
        \A c \in MBConstructs(lang) :
            (IsPrefix(c.text, input) /\ Plain(From(input, Len(c.text))))
                => /\ status = "returned"
                   /\ result = TrimRight((IF c.kept THEN c.text ELSE <<>>)
                                             \o From(input, Len(c.text)))


(***************************************************************************)
(* Terraform: "<<" without a delimiter                                     *)
(***************************************************************************)
\* A text of "<", "-", blanks and line breaks only: whatever "<<" or "<<-"
\* it has is followed by no identifier character, and it has no comment and
\* no string.
NoDelimiterText(s) ==
    /\ \A k \in 1..Len(s) : s[k] \in {"<", "-", " ", NL}
    /\ Index(s, <<"<", "<">>) # -1

\* C33: in removeTerraformComments a "<<" or "<<-" that is not followed by
\* an identifier character does not start a heredoc and its characters are
\* emitted unchanged like any other text that is not a comment: a text that
\* has such triggers and otherwise only blanks and line breaks is returned
\* as it is.
C33_TriggerWithoutDelimiter ==
    (lang = "tf" /\ pass = 1 /\ status # "scanning" /\ NoDelimiterText(input))
        => status = "returned" /\ result = input


(***************************************************************************)
(* The flags of the character loops do not outlive the line                *)
(***************************************************************************)
\* A line of quotes, backslashes, letters and blanks that has a quote or a
\* backslash and opens nothing that spans lines (no triple quote).
QuoteLine(x) ==
    /\ \A k \in 1..Len(x) : x[k] \in {"\"", "'", "\\", "a", " "}
    /\ \E k \in 1..Len(x) : x[k] \in {"\"", "'", "\\"}
    /\ Index(x, <<"\"", "\"", "\"">>) = -1
    /\ Index(x, <<"'", "'", "'">>) = -1

\* The token that starts a line comment in language l.
LineCommentToken(l) == IF l \in {"py", "yaml"} THEN <<"#">> ELSE <<"/", "/">>

\* A line that is a line comment from its first character on.
CommentLine(y, l) ==
    /\ IsPrefix(LineCommentToken(l), y)
    /\ Plain(From(y, Len(LineCommentToken(l))))

\* C34: in the five line-based scanners the in-string, in-char and escape
\* flags start false on every line: after a line of ordinary quotes and
\* backslashes, whether its string or char literal is closed or not and
\* whether or not it ends in a backslash, the next line is scanned from the
\* normal state, so that a line comment on it is dropped as on a first line.
C34_LineFlagsReset ==
    (/\ lang \in LineBased /\ pass = 1 /\ status # "scanning"
     /\ Len(lines) = 2
     /\ QuoteLine(lines[1]) /\ CommentLine(lines[2], lang))
        => /\ status = "returned"
           /\ result = TrimRight(lines[1]) \o <<NL>>

\* A line that ends inside a string, with a backslash as its last character,
\* was followed by a comment line.
C34_Witness ==
    /\ lang \in LineBased /\ pass = 1 /\ status = "returned"
    /\ Len(lines) = 2
    /\ lines[1] = <<"\"", "\\">>
    /\ CommentLine(lines[2], lang)
    /\ result = lines[1] \o <<NL>>


(***************************************************************************)
(* Go raw strings that span lines                                          *)
(***************************************************************************)
\* A text that is one raw string spanning lines: a backtick, then letters,
\* blanks and at least one line break, then the closing backtick.
SpanningRawString(s) ==
    /\ Len(s) >= 3
    /\ s[1] = BT /\ s[Len(s)] = BT
    /\ \A k \in 2..(Len(s) - 1) : s[k] \in {"a", " ", MB, NL}
    /\ \E k \in 2..(Len(s) - 1) : s[k] = NL

\* C35: in removeGoComments the content of a raw string that spans lines is
\* emitted character for character: on the opening line everything from the
\* backtick to the end of the line is kept, the blanks at the end of that
\* line included, so a text that is one such raw string is returned as it
\* is.
C35_RawStringVerbatim ==
    (lang = "go" /\ pass = 1 /\ status # "scanning" /\ SpanningRawString(input))
        => status = "returned" /\ result = input


(***************************************************************************)
(* processBatch                                                            *)
(***************************************************************************)
\* The goroutines that have not ended.
Unfinished ==
    {f \in DOMAIN claude : claude[f] \in {"spawned", "running", "sending"}}

\* run has returned from processBatches.
AfterBatches ==
    pc = "returned" /\ ret \in {"nil", "error"} /\ processedFiles # <<>>
        /\ ~config.CacheOnly

\* C36: processBatch starts exactly one Claude invocation per file of the
\* batch and none for another file, returns only after all of them have
\* finished, and does not deadlock, the error channel having a free slot
\* whenever a worker is about to send; it returns an error if and only if
\* an invocation failed, and the error names every file that failed.
C36_ProcessBatch ==
    /\ pc = "wait" =>
           \A k \in Positions :
               IF k \in Batch THEN claude[processedFiles[k]] # "none"
               ELSE claude[processedFiles[k]] \in {"none", "done"}
    /\ pc # "wait" => Unfinished = {}
    /\ \A f \in DOMAIN claude : claude[f] = "sending" => ErrChanLen < ErrChanCap
    /\ pc = "batches" => \A f \in DOMAIN claude : claude[f] # "failed"
    /\ AfterBatches =>
           /\ ret = "error" <=> \E f \in DOMAIN claude : claude[f] = "failed"
           /\ \A f \in DOMAIN claude :
                  claude[f] = "failed" <=> printed[f] = "claude error"

\* A batch of two files in which both invocations failed has returned.
C36_Witness ==
    /\ AfterBatches /\ ret = "error"
    /\ Cardinality({f \in DOMAIN claude : printed[f] = "claude error"}) = 2


(***************************************************************************)
(* processBatches and the cache                                            *)
(***************************************************************************)
\* The files of the batch being run.
BatchFiles == {processedFiles[k] : k \in Batch}

C38_IgnoredUntouched ==
    [][/\ \A f \in DOMAIN printed :
              printed'[f] = "gitignored" =>
                  /\ cache'[f] = cache[f]
                  /\ mtime'[f] = mtime[f]
                  /\ f \notin written'
                  /\ claude'[f] = "none"
                  /\ \A k \in 1..Len(processedFiles') : processedFiles'[k] # f
       /\ config.CacheOnly =>
              /\ written' = {} /\ mtime' = mtime
              /\ processedFiles' = <<>>
              /\ \A f \in DOMAIN claude : claude'[f] = "none"
      ]_vars

\* Cache-only mode has ended with a git-ignored file left out of the cache
\* and another file marked.
C38_Witness ==
    /\ config.CacheOnly /\ pc = "returned" /\ ret = "nil"
    /\ \E f, g \in DOMAIN printed :
           /\ printed[f] = "gitignored" /\ cache[f] = NoEntry
           /\ printed[g] = "cached" /\ cache[g] = mtime[g]


(***************************************************************************)
(* What collapseExcessiveNewlines leaves of a text                         *)
(***************************************************************************)
\* The non-whitespace characters of a text, in order.
NonWs(s) == SelectSeq(s, LAMBDA c : c \notin Whitespace)

\* The position of the g-th non-whitespace character of s (0 for g = 0).
NonWsPos(s, g) ==
    IF g = 0 THEN 0
    ELSE CHOOSE p \in 1..Len(s) :
             /\ s[p] \notin Whitespace
             /\ Cardinality({q \in 1..p : s[q] \notin Whitespace}) = g

\* The whitespace before the g-th non-whitespace character of s, back to
\* the previous one or to the beginning of the text.
GapBefore(s, g) == SubSeq(s, NonWsPos(s, g - 1) + 1, NonWsPos(s, g) - 1)

HasNewline(w) == \E k \in 1..Len(w) : w[k] = NL

\* The blanks that indent what follows the whitespace w: those after its
\* last line break (all of it when it has none).
Indent(w) ==
    LET ks == {k \in 1..Len(w) : w[k] = NL}
    IN  IF ks = {} THEN w
        ELSE SubSeq(w, (CHOOSE k \in ks : \A m \in ks : k >= m) + 1, Len(w))

\* C39: collapseExcessiveNewlines deletes only whitespace: the sequence of
\* non-whitespace characters of the text it returns is that of its input,
\* two non-whitespace characters that a line break separated are still
\* separated by a line break, and the spaces and tabs that indent a
\* non-blank line are kept.
C39_OnlyWhitespaceDeleted ==
    status = "written" =>
        /\ NonWs(result) = NonWs(input)
        /\ \A g \in 1..Len(NonWs(input)) :
               /\ HasNewline(GapBefore(input, g))
                      => HasNewline(GapBefore(result, g))
               /\ Indent(GapBefore(result, g)) = Indent(GapBefore(input, g))

\* Blank lines before an indented line were removed.
C39_Witness ==
    /\ status = "written" /\ Len(result) < Len(input)
    /\ \E g \in 1..Len(NonWs(input)) :
           /\ g > 1
           /\ Indent(GapBefore(input, g)) # <<>>
           /\ GapBefore(result, g) = <<NL>> \o Indent(GapBefore(input, g))

=============================================================================
